---- MODULE Spec2Model ----
(***************************************************************************)
(* Model of the auto-fix agent: scripts/agent.py (Issue, IssueDetector,    *)
(* IssueFixer, WorkflowOrchestrator), scripts/validators.py                *)
(* (PythonValidator, JavaScriptValidator, DockerValidator,                 *)
(* ValidatorChain), scripts/detectors.py (DockerDetector, GitDetector,     *)
(* ConfigDetector) and scripts/fixers.py (DockerFixer, SecurityFixer,      *)
(* ConfigFixer).                                                           *)
(*                                                                         *)
(* Every subprocess.run call is an input of the model: its outcome is one  *)
(* of the results the call can have, and the command is appended to the    *)
(* log `calls`.  Every print is appended to `out`.                         *)
(***************************************************************************)
EXTENDS Integers, Sequences, FiniteSets, TLC

VARIABLES
    ws,      \* the workspace: which marker files the code finds in it
    env,     \* <<>> or <<the answers the external tools will give to the detectors of this run>>
    fs,      \* <<>> or <<the contents of the Docker files of the workspace>>
    pc,      \* position of WorkflowOrchestrator.run()
    issues,  \* the issues collected so far by run_all_detectors / held by run()
    fixer,   \* the IssueFixer object: its attributes set by __init__
    calls,   \* the commands handed to subprocess.run, in order
    out,     \* the lines printed, in order
    trace,   \* the methods of the agent entered, in order
    result,  \* <<>> until run() returns, then <<its return value>>
    ret,     \* <<>> or <<[method, value, ...]>>: the last method called directly, and what it returned
    vres     \* <<>> until validate_all() returns, then <<[all_passed, results]>>

vars == <<ws, env, fs, pc, issues, fixer, calls, out, trace, result, ret, vres>>

(***************************************************************************)
(* Bounds                                                                  *)
(***************************************************************************)
MaxReq == 1        \* requirements*.txt files in the workspace, listed in any order
MaxSec == 1        \* results in bandit's JSON report
MaxOutdated == 1   \* entries of pip's list of outdated packages
MaxOps == 3        \* length of the method trace up to which IssueFixer is called directly

(***************************************************************************)
(* The workspace and the external commands                                 *)
(***************************************************************************)
\* Path.exists() on a marker file, rglob("*.py") for the Python sources: found,
\* not found, or an OSError.
StatOutcomes == {"present", "absent", "error"}

\* The files of a workspace that glob("requirements*.txt") matches. A workspace
\* with n of them holds the first n.
ReqNames == <<"requirements.txt", "requirements-dev.txt", "requirements-test.txt">>

\* glob() yields the files in the order of the directory listing, which is any
\* order: the orders in which the n files of a workspace can come out.
GlobOrders(n) ==
    {q \in [1..n -> {ReqNames[i] : i \in 1..n}] :
        \A i, j \in 1..n : q[i] = q[j] => i = j}

\* subprocess.run: return code 0, return code not 0, FileNotFoundError
\* (the tool is not installed), TimeoutExpired.
ProcOutcomes == {"ok", "nonzero", "notfound", "timeout"}

\* The outcomes of subprocess.run that are exceptions when check is not set.
Raises == {"notfound", "timeout"}

\* str(e) of the exception an outcome stands for.
ErrText(o) ==
    CASE o = "timeout"  -> "timed out"
      [] o = "notfound" -> "No such file or directory"
      [] o = "nonzero"  -> "returned non-zero exit status"
      [] o = "error"    -> "OSError"
      [] OTHER          -> ""

\* Append a command to the log of subprocess.run calls.
Run(m, cmd) == [m EXCEPT !.calls = Append(@, cmd)]

\* print(): append a line to the console.
Emit(m, line) == [m EXCEPT !.out = Append(@, line)]

\* Enter a method.
Enter(m, name) == [m EXCEPT !.trace = Append(@, name)]

(***************************************************************************)
(* Issue (agent.py 18-26)                                                  *)
(***************************************************************************)
\* fix_command defaults to None.
None == "None"

Issue(t, sev, f, ln, msg, fx, cmd) ==
    [issue_type |-> t, severity |-> sev, file |-> f, line |-> ln,
     message |-> msg, fixable |-> fx, fix_command |-> cmd]

FormattingIssue ==
    Issue("formatting", "low", "(multiple)", 0,
          "Code not formatted according to Black standards", TRUE, "black .")

ImportsIssue ==
    Issue("imports", "low", "(multiple)", 0,
          "Imports not sorted correctly", TRUE, "isort .")

LintingIssue ==
    Issue("linting", "medium", "(multiple)", 0, "Linting issues detected", TRUE,
          "pylint --rcfile=/dev/null . --fix-imports=y")

\* str.lower().  A string of this module holds the characters U+0020 to
\* U+00FF and the characters of the Basic Multilingual Plane whose low byte
\* is 80 to FF (without the double quote, the backslash and the grave accent): the tables below
\* are those of Python over these characters.
\* UpperCase, LowerCase: the characters that lower() changes and, at the same
\* place, what it makes of each.
UpperCase ==
    "ABCDEFGHIJKLMNOPQRSTUVWXYZÀÁÂÃÄÅÆÇÈÉÊËÌÍÎÏÐÑÒÓÔÕÖØÙÚÛÜÝÞƂƄƇƋ"
    \o "ƎƑƘƠƢƤƦƧƩƬƮƯƱƲƳƵƷƸƼǄǅǇǈǊǋǍǏǑǓǕǗǙǛǞǠǢǤǦǨǪǬǮǱǲǴǶǷǸǺǼǾΆΈΉΊΌΎΏΑΒ"
    \o "ΓΔΕΖΗΘΙΚΛΜΝΞΟΠΡΣΤΥΦΧΨΩΪΫϏϘϚϜϞϠϢϤϦϨϪϬϮϴϷϹϺҀҊҌҎҐҒҔҖҘҚҜҞҠҢҤҦҨҪҬ"
    \o "ҮҰҲҴҶҸҺҼҾӀӁӃӅӇӉӋӍӐӒӔӖӘӚӜӞӠӢӤӦӨӪӬӮӰӲӴӶӸӺӼӾᎰᎱᎲᎳᎴᎵᎶᎷᎸᎹᎺᎻᎼᎽᎾᎿᏀᏁᏂ"
    \o "ᏃᏄᏅᏆᏇᏈᏉᏊᏋᏌᏍᏎᏏᏐᏑᏒᏓᏔᏕᏖᏗᏘᏙᏚᏛᏜᏝᏞᏟᏠᏡᏢᏣᏤᏥᏦᏧᏨᏩᏪᏫᏬᏭᏮᏯᏰᏱᏲᏳᏴᏵᲐᲑᲒᲓᲔᲕᲖᲗᲘ"
    \o "ᲙᲚᲛᲜᲝᲞᲟᲠᲡᲢᲣᲤᲥᲦᲧᲨᲩᲪᲫᲬᲭᲮᲯᲰᲱᲲᲳᲴᲵᲶᲷᲸᲹᲺᲽᲾᲿẀẂẄẆẈẊẌẎẐẒẔẞẠẢẤẦẨẪẬẮẰẲẴ"
    \o "ẶẸẺẼẾỀỂỄỆỈỊỌỎỐỒỔỖỘỚỜỞỠỢỤỦỨỪỬỮỰỲỴỶỸỺỼỾᾈᾉᾊᾋᾌᾍᾎᾏᾘᾙᾚᾛᾜᾝᾞᾟᾨᾩᾪᾫᾬᾭᾮ"
    \o "ᾯᾸᾹᾼῌῘῙῨῩῬῼↃⒶⒷⒸⒹⒺⒻⒼⒽⒾⒿⓀⓁⓂⓃⓄⓅⓆⓇⓈⓉⓊⓋⓌⓍⓎⓏⲀⲂⲄⲆⲈⲊⲌⲎⲐⲒⲔⲖⲘⲚⲜⲞⲠⲢⲤⲦⲨⲪ"
    \o "ⲬⲮⲰⲲⲴⲶⲸⲺⲼⲾⳀⳂⳄⳆⳈⳊⳌⳎⳐⳒⳔⳖⳘⳚⳜⳞⳠⳢⳫⳭⳲꚀꚂꚄꚆꚈꚊꚌꚎꚐꚒꚔꚖꚘꚚꞀꞂꞄꞆꞋꞐꞒꞖꞘꞚꞜꞞꞠꞢꞤ"
    \o "ꞦꞨꞰꞱꞲꞴꞶꞸꞺꞼꞾꟀꟂꟄꟅꟆꟇꟉꟐꟖꟘꟵ"

LowerCase ==
    "abcdefghijklmnopqrstuvwxyzàáâãäåæçèéêëìíîïðñòóôõöøùúûüýþƃƅƈƌ"
    \o "ǝƒƙơƣƥʀƨʃƭʈưʊʋƴƶʒƹƽǆǆǉǉǌǌǎǐǒǔǖǘǚǜǟǡǣǥǧǩǫǭǯǳǳǵƕƿǹǻǽǿάέήίόύώαβ"
    \o "γδεζηθικλμνξοπρστυφχψωϊϋϗϙϛϝϟϡϣϥϧϩϫϭϯθϸϲϻҁҋҍҏґғҕҗҙқҝҟҡңҥҧҩҫҭ"
    \o "үұҳҵҷҹһҽҿӏӂӄӆӈӊӌӎӑӓӕӗәӛӝӟӡӣӥӧөӫӭӯӱӳӵӷӹӻӽӿꮀꮁꮂꮃꮄꮅꮆꮇꮈꮉꮊꮋꮌꮍꮎꮏꮐꮑꮒ"
    \o "ꮓꮔꮕꮖꮗꮘꮙꮚꮛꮜꮝꮞꮟꮠꮡꮢꮣꮤꮥꮦꮧꮨꮩꮪꮫꮬꮭꮮꮯꮰꮱꮲꮳꮴꮵꮶꮷꮸꮹꮺꮻꮼꮽꮾꮿᏸᏹᏺᏻᏼᏽაბგდევზთი"
    \o "კლმნოპჟრსტუფქღყშჩცძწჭხჯჰჱჲჳჴჵჶჷჸჹჺჽჾჿẁẃẅẇẉẋẍẏẑẓẕßạảấầẩẫậắằẳẵ"
    \o "ặẹẻẽếềểễệỉịọỏốồổỗộớờởỡợụủứừửữựỳỵỷỹỻỽỿᾀᾁᾂᾃᾄᾅᾆᾇᾐᾑᾒᾓᾔᾕᾖᾗᾠᾡᾢᾣᾤᾥᾦ"
    \o "ᾧᾰᾱᾳῃῐῑῠῡῥῳↄⓐⓑⓒⓓⓔⓕⓖⓗⓘⓙⓚⓛⓜⓝⓞⓟⓠⓡⓢⓣⓤⓥⓦⓧⓨⓩⲁⲃⲅⲇⲉⲋⲍⲏⲑⲓⲕⲗⲙⲛⲝⲟⲡⲣⲥⲧⲩⲫ"
    \o "ⲭⲯⲱⲳⲵⲷⲹⲻⲽⲿⳁⳃⳅⳇⳉⳋⳍⳏⳑⳓⳕⳗⳙⳛⳝⳟⳡⳣⳬⳮⳳꚁꚃꚅꚇꚉꚋꚍꚏꚑꚓꚕꚗꚙꚛꞁꞃꞅꞇꞌꞑꞓꞗꞙꞛꞝꞟꞡꞣꞥ"
    \o "ꞧꞩʞʇʝꞵꞷꞹꞻꞽꞿꟁꟃꞔʂᶎꟈꟊꟑꟗꟙꟶ"

\* The characters that lower() turns into a character no string of this
\* module can hold: Lower has no value on a string with one of them.
NoLowerCase ==
    "ƁƆƉƊƏƐƓƔƖƗƜƝƟϽϾϿႠႡႢႣႤႥႦႧႨႩႪႫႬႭႮႯႰႱႲႳႴႵႶႷႸႹႺႻႼႽႾႿჀჁჂჃჄჅჇჍᎠᎡᎢᎣ"
    \o "ᎤᎥᎦᎧᎨᎩᎪᎫᎬᎭᎮᎯᾺΆῈΈῊΉῚΊῪΎῸΌῺΏꞍꞪꞫꞬꞭꞮꞳ"

\* The cased characters and the case-ignorable ones, which decide what a
\* capital sigma becomes.
CasedChars ==
    "ABCDEFGHIJKLMNOPQRSTUVWXYZabcdefghijklmnopqrstuvwxyzªµºÀÁÂÃÄ"
    \o "ÅÆÇÈÉÊËÌÍÎÏÐÑÒÓÔÕÖØÙÚÛÜÝÞßàáâãäåæçèéêëìíîïðñòóôõöøùúûüýþÿƀƁƂ"
    \o "ƃƄƅƆƇƈƉƊƋƌƍƎƏƐƑƒƓƔƕƖƗƘƙƚƛƜƝƞƟƠơƢƣƤƥƦƧƨƩƪƫƬƭƮƯưƱƲƳƴƵƶƷƸƹƺƼƽƾƿ"
    \o "ǄǅǆǇǈǉǊǋǌǍǎǏǐǑǒǓǔǕǖǗǘǙǚǛǜǝǞǟǠǡǢǣǤǥǦǧǨǩǪǫǬǭǮǯǰǱǲǳǴǵǶǷǸǹǺǻǼǽǾǿ"
    \o "ʀʁʂʃʄʅʆʇʈʉʊʋʌʍʎʏʐʑʒʓʕʖʗʘʙʚʛʜʝʞʟʠʡʢʣʤʥʦʧʨʩʪʫʬʭʮʯΆΈΉΊΌΎΏΐΑΒΓΔΕ"
    \o "ΖΗΘΙΚΛΜΝΞΟΠΡΣΤΥΦΧΨΩΪΫάέήίΰαβγδεζηθικλμνξοπρςστυφχψωϊϋόύώϏϐϑϒ"
    \o "ϓϔϕϖϗϘϙϚϛϜϝϞϟϠϡϢϣϤϥϦϧϨϩϪϫϬϭϮϯϰϱϲϳϴϵϷϸϹϺϻϼϽϾϿҀҁҊҋҌҍҎҏҐґҒғҔҕҖҗ"
    \o "ҘҙҚқҜҝҞҟҠҡҢңҤҥҦҧҨҩҪҫҬҭҮүҰұҲҳҴҵҶҷҸҹҺһҼҽҾҿӀӁӂӃӄӅӆӇӈӉӊӋӌӍӎӏӐӑӒӓ"
    \o "ӔӕӖӗӘәӚӛӜӝӞӟӠӡӢӣӤӥӦӧӨөӪӫӬӭӮӯӰӱӲӳӴӵӶӷӸӹӺӻӼӽӾӿրցւփքօֆևֈႠႡႢႣႤႥႦ"
    \o "ႧႨႩႪႫႬႭႮႯႰႱႲႳႴႵႶႷႸႹႺႻႼႽႾႿჀჁჂჃჄჅჇჍაბგდევზთიკლმნოპჟრსტუფქღყშჩც"
    \o "ძწჭხჯჰჱჲჳჴჵჶჷჸჹჺჽჾჿᎠᎡᎢᎣᎤᎥᎦᎧᎨᎩᎪᎫᎬᎭᎮᎯᎰᎱᎲᎳᎴᎵᎶᎷᎸᎹᎺᎻᎼᎽᎾᎿᏀᏁᏂᏃᏄᏅᏆᏇᏈ"
    \o "ᏉᏊᏋᏌᏍᏎᏏᏐᏑᏒᏓᏔᏕᏖᏗᏘᏙᏚᏛᏜᏝᏞᏟᏠᏡᏢᏣᏤᏥᏦᏧᏨᏩᏪᏫᏬᏭᏮᏯᏰᏱᏲᏳᏴᏵᏸᏹᏺᏻᏼᏽᲀᲁᲂᲃᲄᲅᲆᲇᲈ"
    \o "ᲐᲑᲒᲓᲔᲕᲖᲗᲘᲙᲚᲛᲜᲝᲞᲟᲠᲡᲢᲣᲤᲥᲦᲧᲨᲩᲪᲫᲬᲭᲮᲯᲰᲱᲲᲳᲴᲵᲶᲷᲸᲹᲺᲽᲾᲿᶀᶁᶂᶃᶄᶅᶆᶇᶈᶉᶊᶋᶌᶍ"
    \o "ᶎᶏᶐᶑᶒᶓᶔᶕᶖᶗᶘᶙᶚẀẁẂẃẄẅẆẇẈẉẊẋẌẍẎẏẐẑẒẓẔẕẖẗẘẙẚẛẜẝẞẟẠạẢảẤấẦầẨẩẪẫẬậẮ"
    \o "ắẰằẲẳẴẵẶặẸẹẺẻẼẽẾếỀềỂểỄễỆệỈỉỊịỌọỎỏỐốỒồỔổỖỗỘộỚớỜờỞởỠỡỢợỤụỦủỨứỪ"
    \o "ừỬửỮữỰựỲỳỴỵỶỷỸỹỺỻỼỽỾỿᾀᾁᾂᾃᾄᾅᾆᾇᾈᾉᾊᾋᾌᾍᾎᾏᾐᾑᾒᾓᾔᾕᾖᾗᾘᾙᾚᾛᾜᾝᾞᾟᾠᾡᾢᾣᾤᾥᾦ"
    \o "ᾧᾨᾩᾪᾫᾬᾭᾮᾯᾰᾱᾲᾳᾴᾶᾷᾸᾹᾺΆᾼιῂῃῄῆῇῈΈῊΉῌῐῑῒΐῖῗῘῙῚΊῠῡῢΰῤῥῦῧῨῩῪΎῬῲῳῴῶῷ"
    \o "ῸΌῺΏῼↃↄⒶⒷⒸⒹⒺⒻⒼⒽⒾⒿⓀⓁⓂⓃⓄⓅⓆⓇⓈⓉⓊⓋⓌⓍⓎⓏⓐⓑⓒⓓⓔⓕⓖⓗⓘⓙⓚⓛⓜⓝⓞⓟⓠⓡⓢⓣⓤⓥⓦⓧⓨⓩⲀ"
    \o "ⲁⲂⲃⲄⲅⲆⲇⲈⲉⲊⲋⲌⲍⲎⲏⲐⲑⲒⲓⲔⲕⲖⲗⲘⲙⲚⲛⲜⲝⲞⲟⲠⲡⲢⲣⲤⲥⲦⲧⲨⲩⲪⲫⲬⲭⲮⲯⲰⲱⲲⲳⲴⲵⲶⲷⲸⲹⲺⲻⲼ"
    \o "ⲽⲾⲿⳀⳁⳂⳃⳄⳅⳆⳇⳈⳉⳊⳋⳌⳍⳎⳏⳐⳑⳒⳓⳔⳕⳖⳗⳘⳙⳚⳛⳜⳝⳞⳟⳠⳡⳢⳣⳤⳫⳬⳭⳮⳲⳳꚀꚁꚂꚃꚄꚅꚆꚇꚈꚉꚊꚋꚌꚍ"
    \o "ꚎꚏꚐꚑꚒꚓꚔꚕꚖꚗꚘꚙꚚꚛꞀꞁꞂꞃꞄꞅꞆꞇꞋꞌꞍꞎꞐꞑꞒꞓꞔꞕꞖꞗꞘꞙꞚꞛꞜꞝꞞꞟꞠꞡꞢꞣꞤꞥꞦꞧꞨꞩꞪꞫꞬꞭꞮꞯꞰꞱ"
    \o "ꞲꞳꞴꞵꞶꞷꞸꞹꞺꞻꞼꞽꞾꞿꟀꟁꟂꟃꟄꟅꟆꟇꟈꟉꟊꟐꟑꟓꟕꟖꟗꟘꟙꟵꟶꟺꮀꮁꮂꮃꮄꮅꮆꮇꮈꮉꮊꮋꮌꮍꮎꮏꮐꮑꮒꮓꮔꮕꮖꮗ"
    \o "ꮘꮙꮚꮛꮜꮝꮞꮟꮠꮡꮢꮣꮤꮥꮦꮧꮨꮩꮪꮫꮬꮭꮮꮯꮰꮱꮲꮳꮴꮵꮶꮷꮸꮹꮺꮻꮼꮽꮾꮿ"

CaseIgnorableChars ==
    "'.:^¨­¯´·¸ʰʱʲʳʴʵʶʷʸʹʺʻʼʽʾʿˀˁ˂˃˄˅ˆˇˈˉˊˋˌˍˎˏːˑ˒˓˔˕˖˗˘˙˚˛˜˝˞˟ˠˡ"
    \o "ˢˣˤ˥˦˧˨˩˪˫ˬ˭ˮ˯˰˱˲˳˴˵˶˷˸˹˺˻˼˽˾˿΄΅·҃҄҅҆҇҈҉֑֖֛֢֣֤֚֒֓֔֕֗֘֙֜֝֞֟֠֡"
    \o "ְֱֲֳִֵֶַָׇֹֺֻּֽֿׁׂ֥֦֧֪ׅ֭֮֨֩֫֬֯ׄ״ۖۗۘۙۚۛۜ۝ۣ۟۠ۡۢۤۥۦ۪ۭۧۨ۫۬ަާިީުޫ"
    \o "ެޭޮޯް߲߫߬߭߮߯߰߱߳ߴߵߺ߽࢈࢐࢑࢙࢚࢛࢘࢜࢝࢞࢟ࣉ࣏࣐࣑࣒࣓࣊࣋࣌࣍࣎ࣔࣕࣖࣗࣘࣙࣚࣛࣜࣝࣞࣟ࣠࣡࣢ࣣࣦࣤࣥࣧ"
    \o "ࣰࣱࣲࣩ࣭࣮࣯ࣶࣹࣺࣨ࣪࣫࣬ࣳࣴࣵࣷࣸࣻࣼࣽࣾࣿঁ়ুূৃৄ্ৢৣ৾ઁં઼ુૂૃૄૅેૈ્ૢૣૺૻૼ૽૾૿ஂீ்ಁ಼ಿೆ"
    \o "ೌ್ೢೣඁ්ිීුූັິີຶື຺ຸູົຼໆ່້໊໋໌ໍ྄ཱྀྀྂྃ྆྇ྍྎྏྐྑྒྒྷྔྕྖྗྙྚྛྜྜྷྞྟྠྡྡྷྣྤྥྦྦྷ"
    \o "ྨྩྪྫྫྷྭྮྯྰྱྲླྴྵྶྷྸྐྵྺྻྼ࿆ႂႅႆႍႝჼ឴឵ិីឹឺុូួំ៉៊់៌៍៎៏័៑្៓ៗ៝ᢅᢆᢩᪧ᪰᪱᪲᪳᪴"
    \o "᪵᪶᪷᪸᪹᪺᪽᪻᪼᪾ᪿᫀ᫃᫄᫊᫁᫂᫅᫆᫇᫈᫉᫋ᫌᫍᫎᮀᮁᮢᮣᮤᮥᮨᮩ᮫ᮬᮭ᯦ᯨᯩᯭᯯᯰᯱ᳔᳕᳖᳗᳘᳙᳜᳝᳞᳟᳐᳑᳒᳚᳛᳠"
    \o "᳢᳣᳤᳥᳦᳧᳨᳭᳴᳸᳹ᶛᶜᶝᶞᶟᶠᶡᶢᶣᶤᶥᶦᶧᶨᶩᶪᶫᶬᶭᶮᶯᶰᶱᶲᶳᶴᶵᶶᶷᶸᶹᶺᶻᶼᶽᶾᶿ᷂᷊᷀᷁᷃᷄᷅᷆᷇᷈᷉᷋"
    \o "᷐᷎᷺᷏᷹᷽᷿᷷᷸᷌᷑᷒ᷓᷔᷕᷖᷗᷘᷙᷚᷛᷜᷝᷞᷟᷠᷡᷢᷣᷤᷥᷦᷧᷨᷩᷪᷫᷬᷭᷮᷯᷰᷱᷲᷳᷴ᷵᷻᷾᷶᷼᷍᾽᾿῀῁῍῎῏῝"
    \o "῞῟῭΅`´῾ₐₑₒₓₔₕₖₗₘₙₚₛₜ⃒⃓⃘⃙⃚⃐⃑⃔⃕⃖⃗⃛⃜⃝⃞⃟⃠⃡⃢⃣⃤⃥⃦⃪⃫⃨⃬⃭⃮⃯⃧⃩⃰⳯⳰⳱ⷠⷡⷢⷣ"
    \o "゙゚ⷤⷥⷦⷧⷨⷩⷪⷫⷬⷭⷮⷯⷰⷱⷲⷳⷴⷵⷶⷷⷸⷹⷺⷻⷼⷽⷾⷿ゛゜ゝゞーヽヾꓸꓹꓺꓻꓼꓽꚜꚝꚞꚟ꛰꛱ꞈ꞉꞊ꟲꟳꟴꟸꟹ꣄ꣅ꣠"
    \o "꣡꣢꣣꣤꣥꣦꣧꣨꣩꣪꣫꣬꣭꣮꣯꣰꣱ꣿꦀꦁꦂ꦳ꦶꦷꦸꦹꦼꦽꧏꧥꧦꪴꪰꪲꪳꪷꪸꪾ꪿꫁ꫝꫬꫭꫳꫴ꫶ꯥꯨ꯭﮲﮳﮴﮵﮶﮷﮸﮹﮺﮻﮼"
    \o "﮽﮾﮿﯀﯁﯂﻿ﾞﾟ￣￹￺￻"

CharsOf(s) == {SubSeq(s, i, i) : i \in 1..Len(s)}

LowerOf ==
    [c \in CharsOf(UpperCase) |->
        SubSeq(LowerCase, CHOOSE i \in 1..Len(UpperCase) : SubSeq(UpperCase, i, i) = c,
                          CHOOSE i \in 1..Len(UpperCase) : SubSeq(UpperCase, i, i) = c)]

NoLower == CharsOf(NoLowerCase)
Cased == CharsOf(CasedChars)
CaseIgnorable == CharsOf(CaseIgnorableChars)

LowerChar(c) ==
    IF c \in DOMAIN LowerOf THEN LowerOf[c]
    ELSE IF c \in NoLower THEN CHOOSE x \in {} : TRUE
    ELSE c

\* A capital sigma is a final one when the first character before it that is
\* not case-ignorable is cased, and the first such character after it, if
\* there is one, is not.
FinalSigma(s, i) ==
    LET before == {j \in 1..(i - 1) : SubSeq(s, j, j) \notin CaseIgnorable}
        after == {j \in (i + 1)..Len(s) : SubSeq(s, j, j) \notin CaseIgnorable}
        last == CHOOSE j \in before : \A k \in before : k <= j
        next == CHOOSE j \in after : \A k \in after : j <= k
    IN  /\ before # {} /\ SubSeq(s, last, last) \in Cased
        /\ after = {} \/ SubSeq(s, next, next) \notin Cased

RECURSIVE LowerFrom(_, _)
LowerFrom(s, i) ==
    IF i > Len(s) THEN ""
    ELSE (IF SubSeq(s, i, i) = "Σ" /\ FinalSigma(s, i) THEN "ς"
          ELSE LowerChar(SubSeq(s, i, i))) \o LowerFrom(s, i + 1)

Lower(s) == LowerFrom(s, 1)

\* One entry of bandit's "results": its "severity" key, "absent" when it has none.
SecurityIssue(sev) ==
    Issue("security", Lower(IF sev = "absent" THEN "medium" ELSE sev),
          "unknown", 0, "Security issue detected", FALSE, None)

DependenciesIssue(req, n) ==
    Issue("dependencies", "medium", req, 0,
          ToString(n) \o " outdated dependencies found", TRUE,
          "pip install --upgrade pip && pip install -r " \o req \o " --upgrade")

NpmIssue ==
    Issue("npm-dependencies", "medium", "package.json", 0,
          "Outdated npm packages found", TRUE, "npm update")

(***************************************************************************)
(* IssueDetector (agent.py 28-215)                                         *)
(***************************************************************************)
\* The except clauses of a detector: FileNotFoundError passes silently,
\* any other Exception prints a warning.
Caught(m, what, o) ==
    IF o = "notfound" THEN m
    ELSE Emit(m, "Warning: " \o what \o " check failed: " \o ErrText(o))

\* ob, oi: the outcomes of `black --check` and `isort --check-only`.
detect_formatting_issues(m, ob, oi) ==
    LET m0 == Enter(m, "detect_formatting_issues")
        m1 == Run(m0, "black --check")
        afterBlack == IF ob = "nonzero" THEN <<FormattingIssue>> ELSE <<>>
        m2 == Run(m1, "isort --check-only")
        afterIsort == IF oi = "nonzero" THEN <<ImportsIssue>> ELSE <<>>
    IN  IF ob \in Raises
        THEN [issues |-> <<>>, m |-> Caught(m1, "Formatting", ob)]
        ELSE IF oi \in Raises
        THEN [issues |-> afterBlack, m |-> Caught(m2, "Formatting", oi)]
        ELSE [issues |-> afterBlack \o afterIsort, m |-> m2]

\* pylint: its combined output holds "error" or "warning" ("diag") or neither
\* ("clean"); the return code is not read.
LintOutcomes == {"clean", "diag", "notfound", "timeout"}

detect_linting_issues(m, w, ol) ==
    LET m0 == Enter(m, "detect_linting_issues")
        m1 == Run(m0, "pylint")
    IN  IF w.pyFiles = "error" THEN [issues |-> <<>>, m |-> Caught(m0, "Linting", "error")]
        ELSE IF w.pyFiles = "absent" THEN [issues |-> <<>>, m |-> m0]
        ELSE IF ol \in Raises THEN [issues |-> <<>>, m |-> Caught(m1, "Linting", ol)]
        ELSE [issues |-> IF ol = "diag" THEN <<LintingIssue>> ELSE <<>>, m |-> m1]

\* bandit: not installed, timed out, empty stdout, stdout that is not the JSON
\* object expected, or a JSON object whose "results" carry these severities.
SevRaw == {"HIGH", "absent"}

RECURSIVE SeqsUpTo(_, _)
SeqsUpTo(S, n) ==
    IF n = 0 THEN {<<>>}
    ELSE SeqsUpTo(S, n - 1) \cup
         {Append(q, x) : q \in {r \in SeqsUpTo(S, n - 1) : Len(r) = n - 1}, x \in S}

SecOutcomes ==
    {[kind |-> k, results |-> <<>>] : k \in {"notfound", "timeout", "empty", "malformed"}}
    \cup {[kind |-> "json", results |-> r] : r \in SeqsUpTo(SevRaw, MaxSec)}

RECURSIVE SecurityIssues(_)
SecurityIssues(results) ==
    IF results = <<>> THEN <<>>
    ELSE <<SecurityIssue(Head(results))>> \o SecurityIssues(Tail(results))

detect_security_issues(m, os) ==
    LET m0 == Enter(m, "detect_security_issues")
        m1 == Run(m0, "bandit")
    IN  CASE os.kind \in Raises -> [issues |-> <<>>, m |-> Caught(m1, "Security", os.kind)]
          [] os.kind = "empty" -> [issues |-> <<>>, m |-> m1]
          [] os.kind = "malformed" ->
                [issues |-> <<>>,
                 m |-> Emit(m1, "Warning: Security check failed: Expecting value")]
          [] OTHER -> [issues |-> SecurityIssues(os.results), m |-> m1]

\* `pip list --outdated --format json`: not installed, timed out, empty stdout,
\* unparsable stdout, or a JSON list of n entries.
PipListOutcomes ==
    {[kind |-> k, n |-> 0] : k \in {"notfound", "timeout", "empty", "malformed"}}
    \cup {[kind |-> "json", n |-> n] : n \in 0..MaxOutdated}

\* `npm outdated --json`: not installed, timed out, or its stdout.
NpmOutcomes == {"notfound", "timeout", "", "{}", "{}\n", "{\"pkg\": {}}"}

\* The loop over the requirements files, from file i on; every exception of an
\* iteration is swallowed and the loop goes on.
RECURSIVE PipListLoop(_, _, _, _)
PipListLoop(m, i, reqs, opips) ==
    IF i > Len(reqs) THEN [issues |-> <<>>, m |-> m]
    ELSE LET m1 == Run(m, "pip list --outdated")
             rest == PipListLoop(m1, i + 1, reqs, opips)
             found == IF opips[i].kind = "json" /\ opips[i].n > 0
                      THEN <<DependenciesIssue(reqs[i], opips[i].n)>>
                      ELSE <<>>
         IN  [issues |-> found \o rest.issues, m |-> rest.m]

\* detect_dependency_issues as it would be if the npm block caught
\* FileNotFoundError only: a timeout of `npm outdated` leaves the method.
detect_dependency_issues_timeout_escapes(m, w, opips, onpm) ==
    LET m0 == Enter(m, "detect_dependency_issues")
        py == PipListLoop(m0, 1, w.reqFiles, opips)
        m1 == Run(py.m, "npm outdated")
    IN  CASE w.pkgJson = "error" -> [issues |-> <<>>, m |-> py.m, raised |-> TRUE]
          [] w.pkgJson = "absent" -> [issues |-> py.issues, m |-> py.m, raised |-> FALSE]
          [] OTHER ->
                [issues |-> py.issues \o
                            (IF onpm \notin Raises /\ onpm # "" /\ onpm # "{}"
                             THEN <<NpmIssue>> ELSE <<>>),
                 m |-> m1, raised |-> onpm = "timeout"]

\* raised: package_json.exists() is outside every try, its error leaves the method.
detect_dependency_issues(m, w, opips, onpm) ==
    LET m0 == Enter(m, "detect_dependency_issues")
        py == PipListLoop(m0, 1, w.reqFiles, opips)
        m1 == Run(py.m, "npm outdated")
    IN  CASE w.pkgJson = "error" -> [issues |-> <<>>, m |-> py.m, raised |-> TRUE]
          [] w.pkgJson = "absent" -> [issues |-> py.issues, m |-> py.m, raised |-> FALSE]
          [] OTHER ->
                [issues |-> py.issues \o
                            (IF onpm \notin Raises /\ onpm # "" /\ onpm # "{}"
                             THEN <<NpmIssue>> ELSE <<>>),
                 m |-> m1, raised |-> FALSE]

\* run_all_detectors calls the detectors in this order.
Detectors ==
    <<"detect_formatting_issues", "detect_linting_issues",
      "detect_security_issues", "detect_dependency_issues">>

(***************************************************************************)
(* IssueFixer (agent.py 217-276)                                           *)
(***************************************************************************)
\* IssueFixer.__init__: the attributes of a new fixer (workspace is fixed).
NewFixer == [fixed_count |-> 0]

\* self.fixed_count += k
Fixed(m, k) == [m EXCEPT !.fixer.fixed_count = @ + k]

\* ob, oi: the outcomes of `black` and `isort`; with check=True every outcome
\* but "ok" is an exception, caught by the one except clause.
fix_formatting(m, ob, oi) ==
    LET m0 == Emit(Enter(m, "fix_formatting"), "Fixing code formatting...")
        m1 == Run(m0, "black")
        m2 == Run(m1, "isort")
    IN  IF ob # "ok"
        THEN [m |-> Emit(m1, "Formatting fix failed: " \o ErrText(ob)), ret |-> FALSE]
        ELSE IF oi # "ok"
        THEN [m |-> Emit(m2, "Formatting fix failed: " \o ErrText(oi)), ret |-> FALSE]
        ELSE [m |-> Emit(Fixed(m2, 2), "Formatting fixed"), ret |-> TRUE]

\* The loop over the requirements files, from file i on: the first pip that
\* fails leaves the loop with its exception ("ok" when none failed).
RECURSIVE PipInstallLoop(_, _, _, _)
PipInstallLoop(m, i, reqs, opips) ==
    IF i > Len(reqs) THEN [m |-> m, err |-> "ok"]
    ELSE LET m1 == Run(m, "pip install -r " \o reqs[i])
         IN  IF opips[i] # "ok" THEN [m |-> m1, err |-> opips[i]]
             ELSE PipInstallLoop(m1, i + 1, reqs, opips)

fix_dependencies(m, w, opips, onpm) ==
    LET m0 == Emit(Enter(m, "fix_dependencies"), "Updating dependencies...")
        py == PipInstallLoop(m0, 1, w.reqFiles, opips)
        m1 == Run(py.m, "npm update")
        failed(mm, o) ==
            [m |-> Emit(mm, "Dependency update failed: " \o ErrText(o)), ret |-> FALSE]
        updated(mm) == [m |-> Emit(Fixed(mm, 1), "Dependencies updated"), ret |-> TRUE]
    IN  CASE py.err # "ok" -> failed(py.m, py.err)
          [] w.pkgJson = "error" -> failed(py.m, "error")
          [] w.pkgJson = "absent" -> updated(py.m)
          [] onpm # "ok" -> failed(m1, onpm)
          [] OTHER -> updated(m1)

\* The formatting group as it would be if security findings were fixed with it.
formatting_issues_with_security(is) ==
    SelectSeq(is, LAMBDA i : i.issue_type \in {"formatting", "imports", "security"})

\* The dependency group as it would be if it held the Python findings only.
dep_issues_python_only(is) == SelectSeq(is, LAMBDA i : i.issue_type = "dependencies")

\* The formatting group as it would be if it held every fixable issue that is
\* not a dependency issue.
formatting_issues_all_fixable(is) ==
    SelectSeq(is, LAMBDA i :
        i.fixable /\ i.issue_type \notin {"dependencies", "npm-dependencies"})

\* The two groups apply_fixes builds from the issues.
formatting_issues(is) == SelectSeq(is, LAMBDA i : i.issue_type \in {"formatting", "imports"})
dep_issues(is) == SelectSeq(is, LAMBDA i : i.issue_type \in {"dependencies", "npm-dependencies"})

apply_fixes(m, w, is, ob, oi, opips, onpm) ==
    LET m0 == Emit(Enter(m, "apply_fixes"), "Applying fixes...")
        m1 == IF formatting_issues(is) # <<>> THEN fix_formatting(m0, ob, oi).m ELSE m0
        m2 == IF dep_issues(is) # <<>> THEN fix_dependencies(m1, w, opips, onpm).m ELSE m1
    IN  [m |-> m2, ret |-> m2.fixer.fixed_count]

(***************************************************************************)
(* WorkflowOrchestrator.run (agent.py 286-314)                             *)
(***************************************************************************)
\* `if not issues`: where run() goes once run_all_detectors has returned.
AfterDetectAlwaysReports(is) == "REPORTING"

\* run() as it would be if it went to the fixes without printing the report.
AfterDetectSkipsReport(is) == IF is = <<>> THEN "NO_ISSUES" ELSE "FIXING"

AfterDetect(is) == IF is = <<>> THEN "NO_ISSUES" ELSE "REPORTING"

\* The line printed for one issue.
ReportLine(i) ==
    (IF i.severity = "critical" THEN "red"
     ELSE IF i.severity = "high" THEN "orange" ELSE "yellow")
    \o " [" \o i.issue_type \o "] " \o i.message
    \o (IF i.fixable THEN " (fixable)" ELSE " (requires review)")

RECURSIVE ReportLines(_)
ReportLines(is) ==
    IF is = <<>> THEN <<>> ELSE <<ReportLine(Head(is))>> \o ReportLines(Tail(is))

\* The machine the methods act on.
M == [calls |-> calls, out |-> out, trace |-> trace, fixer |-> fixer]

\* The detectors run_all_detectors has called so far.
DetectorsRun == Len(SelectSeq(trace, LAMBDA t : \E i \in 1..Len(Detectors) : Detectors[i] = t))

\* An input that a method does not read takes one value only.
Only(used, S, dflt) == IF used THEN S ELSE {dflt}

Workspaces ==
    [pyFiles : StatOutcomes, reqFiles : UNION {GlobOrders(n) : n \in 0..MaxReq},
     pkgJson : StatOutcomes, dockerfile : {"absent"}, compose : {"absent"}]

InitCommon ==
    /\ pc = "IDLE"
    /\ issues = <<>>
    /\ fixer = NewFixer
    /\ calls = <<>>
    /\ out = <<>>
    /\ trace = <<>>
    /\ result = <<>>
    /\ ret = <<>>
    /\ vres = <<>>

Init == ws \in Workspaces /\ env = <<>> /\ fs = <<>> /\ InitCommon

\* run() is entered: the banner, then run_all_detectors starts.
RunStart ==
    /\ pc = "IDLE"
    /\ pc' = "DETECTING"
    /\ trace' = trace \o <<"run", "run_all_detectors">>
    /\ out' = out \o <<"Auto-Fix Workflow Agent", "Starting issue detection...">>
    /\ UNCHANGED <<ws, env, fs, issues, fixer, calls, result, ret, vres>>

\* A detector has returned d: all_issues.extend(d.issues).
Extend(d) ==
    /\ issues' = issues \o d.issues
    /\ calls' = d.m.calls
    /\ out' = d.m.out
    /\ trace' = d.m.trace
    /\ UNCHANGED <<ws, env, fs, fixer, result, ret, vres>>

DetectFormatting ==
    /\ pc = "DETECTING" /\ DetectorsRun = 0
    /\ \E ob \in ProcOutcomes :
       \E oi \in Only(ob \notin Raises, ProcOutcomes, "ok") :
          Extend(detect_formatting_issues(M, ob, oi))
    /\ pc' = pc

DetectLinting ==
    /\ pc = "DETECTING" /\ DetectorsRun = 1
    /\ \E ol \in Only(ws.pyFiles = "present", LintOutcomes, "clean") :
          Extend(detect_linting_issues(M, ws, ol))
    /\ pc' = pc

DetectSecurity ==
    /\ pc = "DETECTING" /\ DetectorsRun = 2
    /\ \E os \in SecOutcomes : Extend(detect_security_issues(M, os))
    /\ pc' = pc

\* The last detector: run_all_detectors returns to run(), unless exists() raised.
DetectDependency ==
    /\ pc = "DETECTING" /\ DetectorsRun = 3
    /\ \E opips \in [1..Len(ws.reqFiles) -> PipListOutcomes] :
       \E onpm \in Only(ws.pkgJson = "present", NpmOutcomes, "") :
          LET d == detect_dependency_issues(M, ws, opips, onpm)
          IN  /\ Extend(d)
              /\ pc' = IF d.raised THEN "RAISED" ELSE AfterDetect(issues \o d.issues)

\* `if not issues`: print and return True.
NoIssues ==
    /\ pc = "NO_ISSUES"
    /\ pc' = "DONE"
    /\ out' = Append(out, "No issues detected!")
    /\ result' = <<TRUE>>
    /\ UNCHANGED <<ws, env, fs, issues, fixer, calls, trace, ret, vres>>

\* Report findings.
Report ==
    /\ pc = "REPORTING"
    /\ pc' = "FIXING"
    /\ out' = out \o <<"Found " \o ToString(Len(issues)) \o " issue(s):">> \o ReportLines(issues)
    /\ UNCHANGED <<ws, env, fs, issues, fixer, calls, trace, result, ret, vres>>

\* fixed_count = self.fixer.apply_fixes(issues)
\* A fixer that apply_fixes does not call, or a command the fixer does not
\* reach, has no outcome to choose.
FixOutcomesFor(is, w) ==
    {e \in [ob : Only(formatting_issues(is) # <<>>, ProcOutcomes, "ok"),
            oi : Only(formatting_issues(is) # <<>>, ProcOutcomes, "ok"),
            opips : [1..Len(w.reqFiles) -> Only(dep_issues(is) # <<>>, ProcOutcomes, "ok")],
            onpm : Only(dep_issues(is) # <<>> /\ w.pkgJson = "present", ProcOutcomes, "ok")] :
        /\ e.ob # "ok" => e.oi = "ok"
        /\ \A i \in 1..Len(w.reqFiles) :
             e.opips[i] # "ok" =>
                /\ e.onpm = "ok"
                /\ \A j \in (i + 1)..Len(w.reqFiles) : e.opips[j] = "ok"}

ApplyFixes ==
    /\ pc = "FIXING"
    /\ pc' = "SUMMARIZING"
    /\ \E e \in FixOutcomesFor(issues, ws) :
          LET a == apply_fixes(M, ws, issues, e.ob, e.oi, e.opips, e.onpm)
          IN  /\ fixer' = a.m.fixer
              /\ calls' = a.m.calls
              /\ out' = a.m.out
              /\ trace' = a.m.trace
    /\ UNCHANGED <<ws, env, fs, issues, result, ret, vres>>

\* Summarize as it would be if run() returned whether a fix was applied.
SummarizeReturnsFixed ==
    /\ pc = "SUMMARIZING"
    /\ pc' = "DONE"
    /\ out' = Append(out, "Workflow Complete: " \o ToString(fixer.fixed_count) \o " fix(es) applied")
    /\ result' = <<fixer.fixed_count > 0>>
    /\ UNCHANGED <<ws, env, fs, issues, fixer, calls, trace, ret, vres>>

\* Summarize as it would be if run() went back to the fixes when none was applied.
SummarizeRetries ==
    /\ pc = "SUMMARIZING"
    /\ pc' = IF fixer.fixed_count = 0 THEN "FIXING" ELSE "DONE"
    /\ out' = Append(out, "Workflow Complete: " \o ToString(fixer.fixed_count) \o " fix(es) applied")
    /\ result' = IF fixer.fixed_count = 0 THEN result ELSE <<TRUE>>
    /\ UNCHANGED <<ws, env, fs, issues, fixer, calls, trace, ret, vres>>

\* Summary, return True.
Summarize ==
    /\ pc = "SUMMARIZING"
    /\ pc' = "DONE"
    /\ out' = Append(out, "Workflow Complete: " \o ToString(fixer.fixed_count) \o " fix(es) applied")
    /\ result' = <<TRUE>>
    /\ UNCHANGED <<ws, env, fs, issues, fixer, calls, trace, ret, vres>>

Next ==
    \/ RunStart
    \/ DetectFormatting
    \/ DetectLinting
    \/ DetectSecurity
    \/ DetectDependency
    \/ NoIssues
    \/ Report
    \/ ApplyFixes
    \/ Summarize

Spec == Init /\ [][Next]_vars

(***************************************************************************)
(* run() with the answers of the detectors' tools given beforehand         *)
(***************************************************************************)
\* The answers the tools give to the detectors in workspace w; a tool that the
\* detectors do not reach has one answer only.
DetectEnvs(w) ==
    {e \in [ob : ProcOutcomes, oi : ProcOutcomes,
            ol : Only(w.pyFiles = "present", LintOutcomes, "clean"),
            os : SecOutcomes,
            opips : [1..Len(w.reqFiles) -> PipListOutcomes],
            onpm : Only(w.pkgJson = "present", NpmOutcomes, "")] :
        e.ob \in Raises => e.oi = "ok"}

\* The four detectors in the order of run_all_detectors, each extending
\* all_issues; raised: the exception of the last one leaves the method.
run_all_detectors(m, w, e) ==
    LET d1 == detect_formatting_issues(m, e.ob, e.oi)
        d2 == detect_linting_issues(d1.m, w, e.ol)
        d3 == detect_security_issues(d2.m, e.os)
        d4 == detect_dependency_issues(d3.m, w, e.opips, e.onpm)
    IN  [issues |-> d1.issues \o d2.issues \o d3.issues \o d4.issues,
         m |-> d4.m, raised |-> d4.raised]

\* The workspaces of a run whose tools have their answers ready: no Python
\* source beside several requirements files.
InitEnv ==
    /\ ws \in {w \in Workspaces : Len(w.reqFiles) > 1 => w.pyFiles = "absent"}
    /\ env \in {<<e>> : e \in DetectEnvs(ws)}
    /\ fs = <<>>
    /\ InitCommon

\* issues = self.detector.run_all_detectors(): the tools give their answers.
RunAllDetectors ==
    /\ pc = "DETECTING" /\ env # <<>>
    /\ LET d == run_all_detectors(M, ws, env[1])
       IN  /\ issues' = d.issues
           /\ calls' = d.m.calls
           /\ out' = d.m.out
           /\ trace' = d.m.trace
           /\ pc' = IF d.raised THEN "RAISED" ELSE AfterDetect(d.issues)
    /\ env' = <<>>
    /\ UNCHANGED <<ws, fs, fixer, result, ret, vres>>

NextEnv ==
    \/ RunStart
    \/ RunAllDetectors
    \/ NoIssues
    \/ Report
    \/ ApplyFixes
    \/ Summarize

SpecEnv == InitEnv /\ [][NextEnv]_vars

(***************************************************************************)
(* IssueFixer called directly, method after method, on one fixer           *)
(***************************************************************************)
\* The issue lists handed to apply_fixes.
ApplyInputs ==
    {<<>>, <<FormattingIssue>>, <<ImportsIssue>>, <<NpmIssue>>,
     <<DependenciesIssue(ReqNames[1], 1)>>,
     <<LintingIssue, SecurityIssue("HIGH")>>,
     <<FormattingIssue, ImportsIssue, DependenciesIssue(ReqNames[1], 1), NpmIssue>>}

\* A method of the fixer has returned r.
Returned(r) ==
    /\ fixer' = r.m.fixer
    /\ calls' = r.m.calls
    /\ out' = r.m.out
    /\ trace' = r.m.trace
    /\ ret' = <<[method |-> r.m.trace[Len(trace) + 1], value |-> r.ret]>>
    /\ UNCHANGED <<ws, env, fs, pc, result, vres>>

CallFixFormatting ==
    /\ Len(trace) < MaxOps
    /\ \E ob \in ProcOutcomes :
       \E oi \in Only(ob = "ok", ProcOutcomes, "ok") :
          Returned(fix_formatting(M, ob, oi))
    /\ UNCHANGED issues

CallFixDependencies ==
    /\ Len(trace) < MaxOps
    /\ \E e \in FixOutcomesFor(<<NpmIssue>>, ws) :
          Returned(fix_dependencies(M, ws, e.opips, e.onpm))
    /\ UNCHANGED issues

CallApplyFixes ==
    /\ Len(trace) < MaxOps
    /\ \E is \in ApplyInputs :
       \E e \in FixOutcomesFor(is, ws) :
          /\ Returned(apply_fixes(M, ws, is, e.ob, e.oi, e.opips, e.onpm))
          /\ issues' = is

NextFixer ==
    \/ CallFixFormatting
    \/ CallFixDependencies
    \/ CallApplyFixes

\* The workspaces of a fixer called directly: no Python source, and no
\* package.json beside several requirements files.
InitFixer ==
    /\ ws \in {w \in Workspaces :
                 w.pyFiles = "absent" /\ (Len(w.reqFiles) > 1 => w.pkgJson = "absent")}
    /\ env = <<>> /\ fs = <<>>
    /\ InitCommon

SpecFixer == InitFixer /\ [][NextFixer]_vars

(***************************************************************************)
(* Issue constructed directly (agent.py 18-26)                             *)
(***************************************************************************)
\* The values the fields of an Issue are drawn from; fix_command defaults to
\* None when the caller gives none.
IssueTypes ==
    {"formatting", "imports", "linting", "security", "dependencies", "npm-dependencies"}

Severities == {"critical", "high", "medium", "low"}

FixCommandArgs == {None, "", "black ."}

InitIssue ==
    /\ ws \in {w \in Workspaces :
                 w.pyFiles = "absent" /\ w.reqFiles = <<>> /\ w.pkgJson = "absent"}
    /\ env = <<>> /\ fs = <<>>
    /\ InitCommon

\* Issue(t, sev, ".", 0, "message", fx, cmd): the dataclass has no
\* __post_init__, the generated __init__ stores its arguments and returns.
ConstructIssue ==
    /\ issues = <<>>
    /\ \E t \in IssueTypes, sev \in Severities, fx \in BOOLEAN, cmd \in FixCommandArgs :
          /\ issues' = <<Issue(t, sev, ".", 0, "message", fx, cmd)>>
          /\ trace' = Append(trace, "Issue")
    /\ UNCHANGED <<ws, env, fs, pc, fixer, calls, out, result, ret, vres>>

NextIssue == ConstructIssue

SpecIssue == InitIssue /\ [][NextIssue]_vars

(***************************************************************************)
(* The Docker files of the workspace (detectors.py, fixers.py)             *)
(***************************************************************************)
MaxServices == 2   \* services in docker-compose.yml

\* default_ignores as written in the source: its lines, the text starting and
\* ending with a newline.
default_ignores ==
    <<"", ".git", ".gitignore", ".dockerignore", ".env", "node_modules",
      "__pycache__", ".pytest_cache", ".venv", "build", "dist", "*.egg-info",
      ".vscode", ".idea", "">>

\* str.strip() on a text given by its lines: the empty lines at both ends go.
RECURSIVE strip(_)
strip(lines) ==
    IF lines = <<>> THEN <<>>
    ELSE IF Head(lines) = "" THEN strip(Tail(lines))
    ELSE IF lines[Len(lines)] = "" THEN strip(SubSeq(lines, 1, Len(lines) - 1))
    ELSE lines

\* The Dockerfile: absent, a text that cannot be decoded, or a text with
\* `froms` occurrences of "FROM" and with or without an occurrence of "RUN".
FromCounts == {0, 1, 2}

Dockerfiles ==
    {[state |-> st, froms |-> 0, run |-> FALSE] : st \in {"absent", "undecodable"}}
    \cup {[state |-> "present", froms |-> n, run |-> r] : n \in FromCounts, r \in BOOLEAN}

\* The .dockerignore file: absent, or its lines.
NoFile == [exists |-> FALSE, lines |-> <<>>]
File(lines) == [exists |-> TRUE, lines |-> lines]
Dockerignores == {NoFile, File(<<>>), File(<<"node_modules">>), File(strip(default_ignores))}

\* The healthcheck mapping of a service: <<>> when the service has no
\* "healthcheck" key, else <<the value of the key>>.
DefaultHealthcheck ==
    [test |-> <<"CMD", "curl", "-f", "http://localhost/ || exit 1">>,
     interval |-> "30s", timeout |-> "10s", retries |-> 3, start_period |-> "40s"]

OwnHealthcheck ==
    [test |-> <<"CMD", "true">>,
     interval |-> "5s", timeout |-> "1s", retries |-> 1, start_period |-> "0s"]

\* One entry of "services": a mapping with its "image" value ("absent" when it
\* has no such key, "" when the value is empty) and its healthcheck, or an
\* entry that is not a mapping: null, a number, a string or a list.
\* holds: `"healthcheck" in service` on a string (the word is a part of it) or
\* on a list (the word is one of its items).
Services ==
    {[kind |-> k, holds |-> FALSE, image |-> "absent", healthcheck |-> <<>>] :
        k \in {"null", "number"}}
    \cup {[kind |-> k, holds |-> b, image |-> "absent", healthcheck |-> <<>>] :
            k \in {"string", "list"}, b \in BOOLEAN}
    \cup {[kind |-> "mapping", holds |-> FALSE, image |-> im, healthcheck |-> h] :
            im \in {"absent", "", "nginx"}, h \in {<<>>, <<OwnHealthcheck>>}}

\* The keys of "services", in alphabetical order. A file with n services
\* names them with the first n.
ServiceNames == <<"api", "db", "web">>

NameRank(name) == CHOOSE i \in 1..Len(ServiceNames) : ServiceNames[i] = name

\* The orders in which a file can list its n services.
ServiceOrders(n) ==
    {o \in [1..n -> {ServiceNames[i] : i \in 1..n}] :
        \A i, j \in 1..n : o[i] = o[j] => i = j}

\* The "services" mapping of a file: its items in the order of the text, each
\* with its key.
ServiceMappings ==
    UNION {{[i \in 1..n |->
                [name |-> o[i], kind |-> q[i].kind, holds |-> q[i].holds,
                 image |-> q[i].image, healthcheck |-> q[i].healthcheck]] :
              q \in [1..n -> Services], o \in ServiceOrders(n)} : n \in 0..MaxServices}

PasswordMarkers == {"password:", "MYSQL_ROOT_PASSWORD", "POSTGRES_PASSWORD"}

\* The words detect_config_issues looks for in the text.
ConfigWords == {"healthcheck", "deploy"} \cup PasswordMarkers

\* The words that the loaded data of a file can carry into the text that
\* yaml.dump writes, beside the "healthcheck" of the services.
DataWords == {"deploy"} \cup PasswordMarkers

\* The words a text holds: "healthcheck" or not, "deploy" or not, and at most
\* one password marker.
TextSets ==
    {h \cup d \cup m : h \in SUBSET {"healthcheck"}, d \in SUBSET {"deploy"},
                       m \in {{}} \cup {{p} : p \in PasswordMarkers}}

DataSets == {t \in TextSets : t \subseteq DataWords}

\* docker-compose.yml: absent, or a text that yaml.safe_load turns into a
\* mapping with a "services" mapping ("mapping"), a mapping whose "services" is
\* null ("nullservices"), a mapping without the key ("noservices"), nothing
\* ("empty"), or that it cannot parse ("malformed").
\* text: the words the text holds, as `word in content` finds them.
\* data: the words held by the text that yaml.dump would write from the loaded
\* data.  One does not follow from the other: a word of a comment or of an
\* anchor name is in the text of the file and not in what the dump writes; a
\* key the file writes as "password": or `password :`, or with an escape, is
\* written back as `password:`.
NoCompose ==
    [exists |-> FALSE, yaml |-> "empty", services |-> <<>>, text |-> {}, data |-> {}]

ComposeFiles ==
    {NoCompose}
    \cup [exists : {TRUE}, yaml : {"mapping"}, services : ServiceMappings,
          text : TextSets, data : DataSets]
    \cup [exists : {TRUE}, yaml : {"nullservices", "noservices", "empty", "malformed"},
          services : {<<>>}, text : TextSets, data : {{}}]

\* `word in content`, content being the text of the file.
Holds(c, word) == word \in c.text

\* The words of the text that yaml.dump writes from the data of c with these
\* services.
DumpedWords(c, services) ==
    c.data \cup (IF \E i \in 1..Len(services) :
                        services[i].healthcheck # <<>> \/ services[i].holds
                 THEN {"healthcheck"} ELSE {})

\* The workspace record of a workspace with these Docker files.
WorkspaceOf(f) ==
    [pyFiles |-> "absent", reqFiles |-> <<>>, pkgJson |-> "absent",
     dockerfile |-> IF f.dockerfile.state = "absent" THEN "absent" ELSE "present",
     compose |-> IF f.compose.exists THEN "present" ELSE "absent"]

\* DetectionResult (detectors.py 13-19)
DetectionResult(category, found, count, details, severity) ==
    [category |-> category, found |-> found, count |-> count,
     details |-> details, severity |-> severity]

\* sum(issues.values()): the number of keys of the dict whose value is True.
CountTrue(d) == Cardinality({k \in DOMAIN d : d[k]})

\* detect_docker_best_practices as it would be if the security scan were found
\* in a Dockerfile that runs commands.
detect_docker_best_practices_scanning(f) ==
    LET d == f.dockerfile
        issues0 == [multi_stage |-> FALSE, layer_caching |-> FALSE, security_scan |-> FALSE]
        issues1 == [issues0 EXCEPT !.multi_stage = d.froms >= 1 /\ d.froms > 1,
                                   !.layer_caching = d.run,
                                   !.security_scan = d.run]
        res(is) == DetectionResult("docker", TRUE, Cardinality(DOMAIN is) - CountTrue(is),
                                   is, "medium")
    IN  CASE d.state = "absent" -> [ret |-> <<res(issues0)>>, raised |-> FALSE]
          [] d.state = "undecodable" -> [ret |-> <<>>, raised |-> TRUE]
          [] OTHER -> [ret |-> <<res(issues1)>>, raised |-> FALSE]

\* DockerDetector.detect_docker_best_practices(workspace); raised: read_text()
\* raised.
detect_docker_best_practices(f) ==
    LET d == f.dockerfile
        issues0 == [multi_stage |-> FALSE, layer_caching |-> FALSE, security_scan |-> FALSE]
        issues1 == [issues0 EXCEPT !.multi_stage = d.froms >= 1 /\ d.froms > 1,
                                   !.layer_caching = d.run]
        res(is) == DetectionResult("docker", TRUE, Cardinality(DOMAIN is) - CountTrue(is),
                                   is, "medium")
    IN  CASE d.state = "absent" -> [ret |-> <<res(issues0)>>, raised |-> FALSE]
          [] d.state = "undecodable" -> [ret |-> <<>>, raised |-> TRUE]
          [] OTHER -> [ret |-> <<res(issues1)>>, raised |-> FALSE]

\* ConfigDetector.detect_config_issues(workspace)
detect_config_issues(f) ==
    LET c == f.compose
        issues0 ==
            [missing_healthcheck |-> ~Holds(c, "healthcheck"),
             missing_resource_limits |-> ~Holds(c, "deploy"),
             hardcoded_passwords |-> \E p \in PasswordMarkers : Holds(c, p)]
    IN  IF ~c.exists THEN <<>>
        ELSE <<DetectionResult("docker-compose",
                               \E k \in DOMAIN issues0 : issues0[k],
                               CountTrue(issues0), issues0,
                               IF issues0.hardcoded_passwords THEN "high" ELSE "medium")>>

\* DockerFixer.optimize_dockerfile(workspace); raised: read_text() raised.
optimize_dockerfile(f) ==
    CASE f.dockerfile.state = "absent" -> [fs |-> f, ret |-> FALSE, raised |-> FALSE]
      [] f.dockerfile.state = "undecodable" -> [fs |-> f, ret |-> FALSE, raised |-> TRUE]
      [] ~f.dockerignore.exists ->
            [fs |-> [f EXCEPT !.dockerignore = File(strip(default_ignores))],
             ret |-> TRUE, raised |-> FALSE]
      [] OTHER -> [fs |-> f, ret |-> FALSE, raised |-> FALSE]

InitDocker ==
    /\ fs \in {<<[dockerfile |-> d, dockerignore |-> g, compose |-> NoCompose]>> :
                 d \in Dockerfiles, g \in Dockerignores}
    /\ ws = WorkspaceOf(fs[1])
    /\ env = <<>>
    /\ InitCommon

\* A static method has been called on the workspace: what it returned.
Called(name, value, raised) ==
    /\ trace' = Append(trace, name)
    /\ ret' = <<[method |-> name, value |-> value, raised |-> raised]>>
    /\ UNCHANGED <<ws, env, pc, issues, fixer, calls, out, result, vres>>

OptimizeDockerfile ==
    /\ Len(trace) < MaxOps
    /\ LET r == optimize_dockerfile(fs[1])
       IN  /\ fs' = <<r.fs>>
           /\ Called("optimize_dockerfile", r.ret, r.raised)

DetectDockerBestPractices ==
    /\ Len(trace) < MaxOps
    /\ LET r == detect_docker_best_practices(fs[1])
       IN  /\ fs' = fs
           /\ Called("detect_docker_best_practices", r.ret, r.raised)

\* `git secrets --scan` in the workspace: the exit code of git, or the
\* exception subprocess.run raises (git is not installed, the scan timed out,
\* the workspace cannot be entered).
ExitCodes == {0, 1, 2}

GitSecretsOutcomes ==
    {[kind |-> "exit", code |-> c] : c \in ExitCodes}
    \cup {[kind |-> k, code |-> 0] : k \in Raises \cup {"error"}}

\* SecurityFixer.remove_hardcoded_secrets(workspace): the exit code of the
\* scan, 1 on any exception; no check of the exit code, no file is touched.
remove_hardcoded_secrets(m, og) ==
    LET m0 == Enter(m, "remove_hardcoded_secrets")
        m1 == Run(m0, "git secrets --scan")
    IN  [m |-> m1, ret |-> IF og.kind = "exit" THEN og.code ELSE 1]

RemoveHardcodedSecrets ==
    /\ Len(trace) < MaxOps
    /\ \E og \in GitSecretsOutcomes :
          LET r == remove_hardcoded_secrets(M, og)
          IN  /\ calls' = r.m.calls
              /\ trace' = r.m.trace
              /\ ret' = <<[method |-> "remove_hardcoded_secrets", value |-> r.ret,
                           raised |-> FALSE]>>
    /\ UNCHANGED <<ws, env, fs, pc, issues, fixer, out, result, vres>>

NextDocker ==
    \/ OptimizeDockerfile
    \/ DetectDockerBestPractices
    \/ RemoveHardcodedSecrets

SpecDocker == InitDocker /\ [][NextDocker]_vars

\* yaml.dump(config, f, default_flow_style=False) over the text of c: the file
\* is written anew from the data, with the keys of every mapping in sorted
\* order (sort_keys is True by default), every key and scalar in the style of
\* the dumper, and without the comments and the anchor names of the old text.
SortedByName(services) ==
    [k \in 1..Len(services) |->
        services[CHOOSE i \in 1..Len(services) :
            Cardinality({j \in 1..Len(services) :
                NameRank(services[j].name) < NameRank(services[i].name)}) = k - 1]]

dump(c, services) ==
    [c EXCEPT !.services = SortedByName(services), !.text = DumpedWords(c, services)]

\* The loop over config["services"].items() from entry i on, each entry put
\* to `"healthcheck" not in service and service.get("image")`.  raised: null
\* and a number raise at `in` (TypeError); a string and a list that do not
\* hold "healthcheck" raise at `.get` (AttributeError); one that holds it
\* makes the test false and the loop goes on.
RECURSIVE HealthcheckLoop(_, _, _)
HealthcheckLoop(services, i, modified) ==
    IF i > Len(services) THEN [services |-> services, modified |-> modified, raised |-> FALSE]
    ELSE IF services[i].kind \in {"null", "number"}
    THEN [services |-> services, modified |-> modified, raised |-> TRUE]
    ELSE IF services[i].kind \in {"string", "list"}
    THEN (IF services[i].holds
          THEN HealthcheckLoop(services, i + 1, modified)
          ELSE [services |-> services, modified |-> modified, raised |-> TRUE])
    ELSE IF services[i].healthcheck = <<>> /\ services[i].image \notin {"absent", ""}
    THEN HealthcheckLoop(
             [services EXCEPT ![i].healthcheck = <<DefaultHealthcheck>>], i + 1, TRUE)
    ELSE HealthcheckLoop(services, i + 1, modified)

\* ConfigFixer.add_docker_compose_healthcheck(compose_file): a file that is not
\* there, that does not parse, that is empty, that has no "services" or a null
\* one, and an exception in the loop all end in `return False` with nothing
\* written; the file is written only when an entry was modified.
add_docker_compose_healthcheck(c) ==
    LET l == HealthcheckLoop(c.services, 1, FALSE)
    IN  IF ~c.exists \/ c.yaml # "mapping" \/ l.raised \/ ~l.modified
        THEN [file |-> c, ret |-> FALSE, wrote |-> FALSE]
        ELSE [file |-> dump(c, l.services), ret |-> TRUE, wrote |-> TRUE]

\* The compose files of the workspaces: a file with as many services as a
\* file can have holds the words that a dump of its data would hold.
InitCompose ==
    /\ fs \in {<<[dockerfile |-> [state |-> "absent", froms |-> 0, run |-> FALSE],
                  dockerignore |-> NoFile, compose |-> c]>> :
                 c \in {x \in ComposeFiles :
                          (x.exists /\ Len(x.services) = MaxServices) =>
                              x.text = DumpedWords(x, x.services)}}
    /\ ws = WorkspaceOf(fs[1])
    /\ env = <<>>
    /\ InitCommon

DetectConfigIssues ==
    /\ Len(trace) < MaxOps
    /\ fs' = fs
    /\ Called("detect_config_issues", detect_config_issues(fs[1]), FALSE)

\* wrote: the call opened docker-compose.yml for writing.
AddDockerComposeHealthcheck ==
    /\ Len(trace) < MaxOps
    /\ LET r == add_docker_compose_healthcheck(fs[1].compose)
       IN  /\ fs' = <<[fs[1] EXCEPT !.compose = r.file]>>
           /\ ret' = <<[method |-> "add_docker_compose_healthcheck", value |-> r.ret,
                        raised |-> FALSE, wrote |-> r.wrote]>>
    /\ trace' = Append(trace, "add_docker_compose_healthcheck")
    /\ UNCHANGED <<ws, env, pc, issues, fixer, calls, out, result, vres>>

NextCompose ==
    \/ DetectConfigIssues
    \/ AddDockerComposeHealthcheck

SpecCompose == InitCompose /\ [][NextCompose]_vars

(***************************************************************************)
(* The structured detectors called on one workspace (detectors.py)         *)
(***************************************************************************)
MaxCommits == 2    \* subjects printed by `git log --format=%s -n 10`

MaxSubject == 72   \* len(c) > 72

\* One subject line: its length, and whether it starts with "Merge"; a subject
\* of the longest length allowed, one that is longer, and a merge.
Subjects ==
    {[len |-> MaxSubject, merge |-> FALSE],
     [len |-> MaxSubject + 1, merge |-> FALSE],
     [len |-> MaxSubject, merge |-> TRUE]}

\* `git log`: not installed, timed out, or the subjects on its stdout (none
\* when the workspace is no repository or has no commit).
GitLogOutcomes ==
    {[kind |-> k, subjects |-> <<>>] : k \in Raises}
    \cup {[kind |-> "stdout", subjects |-> q] : q \in SeqsUpTo(Subjects, MaxCommits)}

\* result.stdout.split("\n"): every subject ends with a newline, so the split
\* gives the subjects and one empty string; an empty stdout gives [""].
SplitLines(subjects) == subjects \o <<[len |-> 0, merge |-> FALSE]>>

\* GitDetector.detect_commit_quality(workspace); og: what `git log` does.
detect_commit_quality(og) ==
    LET commits == SplitLines(og.subjects)
        bad == SelectSeq(commits, LAMBDA c : c.len > MaxSubject \/ c.merge)
    IN  IF og.kind \in Raises
        THEN <<DetectionResult("git", FALSE, 0, <<>>, "low")>>
        ELSE <<DetectionResult("git", Len(bad) > 0, Len(bad),
                               [bad_commits |-> Len(bad), total_checked |-> Len(commits)],
                               "low")>>

\* The workspaces the three detectors tell apart: the Dockerfile, and a
\* docker-compose.yml with at most one service, whose data holds the words of
\* its text; the text of a file with a service is one that a dump of its data
\* would write.
InitDetectors ==
    /\ fs \in {<<[dockerfile |-> d, dockerignore |-> NoFile, compose |-> c]>> :
                 d \in Dockerfiles,
                 c \in {x \in ComposeFiles :
                          \/ ~x.exists
                          \/ /\ x.yaml = "mapping" /\ Len(x.services) <= 1
                             /\ x.data = x.text \ {"healthcheck"}
                             /\ Len(x.services) = 1 =>
                                   x.text = DumpedWords(x, x.services)}}
    /\ ws = WorkspaceOf(fs[1])
    /\ env = <<>>
    /\ InitCommon

DetectCommitQuality ==
    /\ Len(trace) < MaxOps
    /\ fs' = fs
    /\ calls' = Append(calls, "git log")
    /\ \E og \in GitLogOutcomes :
          /\ trace' = Append(trace, "detect_commit_quality")
          /\ ret' = <<[method |-> "detect_commit_quality",
                       value |-> detect_commit_quality(og), raised |-> FALSE]>>
    /\ UNCHANGED <<ws, env, pc, issues, fixer, out, result, vres>>

NextDetectors ==
    \/ DetectDockerBestPractices
    \/ DetectCommitQuality
    \/ DetectConfigIssues

SpecDetectors == InitDetectors /\ [][NextDetectors]_vars

(***************************************************************************)
(* Validators (validators.py)                                              *)
(***************************************************************************)
\* What validate() gives: a (passed, message) pair, or an exception that
\* leaves it (raised, with str(e) as message).
Gives(m, passed, message) ==
    [m |-> m, raised |-> FALSE, passed |-> passed, message |-> message]
Throws(m, text) ==
    [m |-> m, raised |-> TRUE, passed |-> FALSE, message |-> text]

\* The except clauses shared by the three validators.
ValidatorCaught(m, o, unavailable) ==
    IF o = "notfound" THEN Gives(m, TRUE, unavailable)
    ELSE Gives(m, FALSE, "Validation error: " \o ErrText(o))

\* oc, ot: the outcomes of `python -m py_compile` and `pytest`.
PythonValidator(m, w, oc, ot) ==
    LET m0 == Enter(m, "PythonValidator.validate")
        m1 == Run(m0, "python -m py_compile")
        m2 == Run(m1, "pytest")
    IN  CASE w.pyFiles = "error" ->
                ValidatorCaught(m0, "error", "Python validators not available")
          [] oc \in Raises -> ValidatorCaught(m1, oc, "Python validators not available")
          [] oc = "nonzero" -> Gives(m1, FALSE, "Python syntax errors detected")
          [] ot \in Raises -> ValidatorCaught(m2, ot, "Python validators not available")
          [] ot = "nonzero" -> Gives(m2, FALSE, "Tests failed:\n<stdout>")
          [] OTHER -> Gives(m2, TRUE, "Python validation passed")

\* on: the outcome of `npm test`.  The exists() test is outside the try.
JavaScriptValidator(m, w, on) ==
    LET m0 == Enter(m, "JavaScriptValidator.validate")
        m1 == Run(m0, "npm test")
    IN  CASE w.pkgJson = "error" -> Throws(m0, ErrText("error"))
          [] w.pkgJson = "absent" -> Gives(m0, TRUE, "No JavaScript project found")
          [] on \in Raises -> ValidatorCaught(m1, on, "npm not available")
          [] on = "nonzero" -> Gives(m1, FALSE, "Tests failed:\n<stdout>")
          [] OTHER -> Gives(m1, TRUE, "JavaScript validation passed")

\* ob, od: the outcomes of `docker build` and `docker compose config`.
DockerValidator(m, w, ob, od) ==
    LET m0 == Enter(m, "DockerValidator.validate")
        m1 == IF w.dockerfile = "present" THEN Run(m0, "docker build") ELSE m0
        m2 == Run(m1, "docker compose config")
        unavailable == "Docker not available for validation"
    IN  CASE w.dockerfile = "error" -> ValidatorCaught(m0, "error", unavailable)
          [] w.dockerfile = "present" /\ ob \in Raises -> ValidatorCaught(m1, ob, unavailable)
          [] w.dockerfile = "present" /\ ob = "nonzero" ->
                Gives(m1, FALSE, "Docker build failed:\n<stderr>")
          [] w.compose = "error" -> ValidatorCaught(m1, "error", unavailable)
          [] w.compose = "absent" -> Gives(m1, TRUE, "Docker validation passed")
          [] od \in Raises -> ValidatorCaught(m2, od, unavailable)
          [] od = "nonzero" -> Gives(m2, FALSE, "Docker Compose validation failed:\n<stderr>")
          [] OTHER -> Gives(m2, TRUE, "Docker validation passed")

\* ValidatorChain.__init__: self.validators, by class name.
Validators == <<"PythonValidator", "JavaScriptValidator", "DockerValidator">>

\* validator.validate() of the i-th validator of the chain.
validate(i, m, w, e) ==
    CASE i = 1 -> PythonValidator(m, w, e.oc, e.ot)
      [] i = 2 -> JavaScriptValidator(m, w, e.on)
      [] OTHER -> DockerValidator(m, w, e.ob, e.od)

\* The record an iteration of validate_all appends for the result r.
ResultRecordSwallow(name, r) ==
    [validator |-> name, passed |-> (r.raised \/ r.passed), message |-> r.message]

ResultRecord(name, r) ==
    IF r.raised
    THEN [validator |-> name, passed |-> FALSE, message |-> "Error: " \o r.message]
    ELSE [validator |-> name, passed |-> r.passed, message |-> r.message]

\* all_passed after an iteration of validate_all with the result r.
PassedAfterForgetsRaise(all_passed, r) ==
    IF ~r.raised /\ ~r.passed THEN FALSE ELSE all_passed

PassedAfter(all_passed, r) ==
    IF r.raised \/ ~r.passed THEN FALSE ELSE all_passed

\* One iteration of the loop of validate_all.
ChainStep(acc, i, w, e) ==
    LET r == validate(i, acc.m, w, e)
    IN  [m |-> r.m,
         all_passed |-> PassedAfter(acc.all_passed, r),
         results |-> Append(acc.results, ResultRecord(Validators[i], r))]

\* The loop of validate_all from the i-th validator on.
RECURSIVE ChainLoop(_, _, _, _)
ChainLoop(acc, i, w, e) ==
    IF i > Len(Validators) THEN acc
    ELSE ChainLoop(ChainStep(acc, i, w, e), i + 1, w, e)

\* The same loop, left at the first validator that does not pass.
RECURSIVE ChainLoopBreaking(_, _, _, _)
ChainLoopBreaking(acc, i, w, e) ==
    IF i > Len(Validators) \/ ~acc.all_passed THEN acc
    ELSE ChainLoopBreaking(ChainStep(acc, i, w, e), i + 1, w, e)

validate_all_breaking(m, w, e) ==
    ChainLoopBreaking([m |-> Enter(m, "validate_all"), all_passed |-> TRUE, results |-> <<>>],
                      1, w, e)

validate_all(m, w, e) ==
    ChainLoop([m |-> Enter(m, "validate_all"), all_passed |-> TRUE, results |-> <<>>],
              1, w, e)

\* The workspaces the validators look at.
VWorkspaces ==
    [pyFiles : StatOutcomes, reqFiles : {<<>>}, pkgJson : StatOutcomes,
     dockerfile : StatOutcomes, compose : StatOutcomes]

InitValidators == ws \in VWorkspaces /\ env = <<>> /\ fs = <<>> /\ InitCommon

\* The outcomes of the commands the validators reach in workspace w.
VOutcomesFor(w) ==
    {e \in [oc : Only(w.pyFiles # "error", ProcOutcomes, "ok"),
            ot : Only(w.pyFiles # "error", ProcOutcomes, "ok"),
            on : Only(w.pkgJson = "present", ProcOutcomes, "ok"),
            ob : Only(w.dockerfile = "present", ProcOutcomes, "ok"),
            od : Only(w.compose = "present", ProcOutcomes, "ok")] :
        /\ e.oc # "ok" => e.ot = "ok"
        /\ e.ob # "ok" => e.od = "ok"}

\* ValidatorChain(workspace).validate_all()
ValidateAll ==
    /\ vres = <<>>
    /\ \E e \in VOutcomesFor(ws) :
          LET v == validate_all(M, ws, e)
          IN  /\ vres' = <<[all_passed |-> v.all_passed, results |-> v.results]>>
              /\ calls' = v.m.calls
              /\ trace' = v.m.trace
    /\ UNCHANGED <<ws, env, fs, pc, issues, fixer, out, result, ret>>

NextValidators == ValidateAll

SpecValidators == InitValidators /\ [][NextValidators]_vars

(***************************************************************************)
(* Properties                                                              *)
(***************************************************************************)
Range(q) == {q[i] : i \in 1..Len(q)}

\* The commands through which the fixers change the workspace.
FixCommands ==
    {"black", "isort", "npm update"} \cup {"pip install -r " \o ReqNames[i] : i \in 1..Len(ReqNames)}

FixMethods == {"apply_fixes", "fix_formatting", "fix_dependencies"}

\* C1: when detection finds nothing, run() returns True and does nothing to the
\* workspace: no fixer method is entered, no fixing command is run and
\* fixed_count stays 0.
C1_NoFindingsNoFix ==
    (pc \in {"NO_ISSUES", "DONE"} /\ issues = <<>>) =>
        /\ pc = "DONE" => result = <<TRUE>>
        /\ fixer.fixed_count = 0
        /\ Range(trace) \cap FixMethods = {}
        /\ Range(calls) \cap FixCommands = {}

\* A run that ended with no issue after the detectors ran their tools.
C1_Witness ==
    /\ pc = "DONE" /\ issues = <<>> /\ result = <<TRUE>>
    /\ {"black --check", "isort --check-only", "pylint", "bandit"} \subseteq Range(calls)

\* C2: a fixer applied again right after it succeeded adds nothing to
\* fixed_count.
C2_SecondApplicationAddsNothing ==
    [][\A f \in {"fix_formatting", "fix_dependencies"} :
          (/\ ret # <<>> /\ ret[1].method = f /\ ret[1].value = TRUE
           /\ trace' # trace /\ ret'[1].method = f)
          => fixer'.fixed_count = fixer.fixed_count]_vars

\* C3: a detector whose tool timed out contributes no finding (here the
\* formatting detector, whose findings are the formatting and imports issues).
C3_TimedOutDetectorIsEmpty ==
    ("Warning: Formatting check failed: timed out" \in Range(out)) =>
        \A i \in 1..Len(issues) : issues[i].issue_type \notin {"formatting", "imports"}

\* The command that fixes the findings of issue i.
FixCommandOf(i) ==
    CASE i.issue_type = "formatting" -> "black"
      [] i.issue_type = "imports" -> "isort"
      [] i.issue_type = "dependencies" -> "pip install -r " \o i.file
      [] OTHER -> "npm update"

FixedCategories == {"formatting", "imports", "dependencies", "npm-dependencies"}

\* The failures the fixers printed during the run.
FixFailures ==
    SelectSeq(out, LAMBDA l :
        \E o \in ProcOutcomes \cup {"error"} :
            l \in {"Formatting fix failed: " \o ErrText(o),
                   "Dependency update failed: " \o ErrText(o)})

\* The fixing commands of the fixer that issue i belongs to, as run so far.
FixerCalls(i) ==
    SelectSeq(calls, LAMBDA c :
        IF i.issue_type \in {"formatting", "imports"}
        THEN c \in {"black", "isort"}
        ELSE c \in FixCommands \ {"black", "isort"})

\* The fix of issue i's category failed: its command is the last one its fixer
\* ran, and the fixer printed the failure.
FixFailed(i) ==
    /\ FixerCalls(i) # <<>>
    /\ FixerCalls(i)[Len(FixerCalls(i))] = FixCommandOf(i)
    /\ \E o \in ProcOutcomes :
          (IF i.issue_type \in {"formatting", "imports"}
           THEN "Formatting fix failed: " ELSE "Dependency update failed: ") \o ErrText(o)
          \in Range(out)

\* C4: once the fix phase is over, for any two findings of distinct fixable
\* categories, when the fix of the one failed (and nothing else did), the fix
\* of the other was attempted.
C4_FailureBlocksNoOtherCategory ==
    pc \in {"SUMMARIZING", "DONE"} =>
        \A a, b \in {i \in Range(issues) : i.issue_type \in FixedCategories} :
            (a.issue_type # b.issue_type /\ FixFailed(a) /\ Len(FixFailures) = 1)
            => FixCommandOf(b) \in Range(calls)

\* C5: every failed fix of the run is an entry of the fixer's errors.
C5_FailuresAreRecorded ==
    (pc \in {"SUMMARIZING", "DONE"} /\ FixFailures # <<>>) =>
        /\ "errors" \in DOMAIN fixer
        /\ Len(fixer.errors) = Len(FixFailures)

\* C6: validate_all returns one record per validator of the chain, in the
\* chain's order, and has entered every validator.
C6_OneRecordPerValidator ==
    vres # <<>> =>
        /\ Len(vres[1].results) = Len(Validators)
        /\ \A i \in 1..Len(Validators) : vres[1].results[i].validator = Validators[i]
        /\ {Validators[i] \o ".validate" : i \in 1..Len(Validators)} \subseteq Range(trace)

\* The first validator failed, the second raised, and the third was still run.
C6_Witness ==
    /\ vres # <<>>
    /\ ~vres[1].results[1].passed
    /\ ws.pkgJson = "error"
    /\ "docker build" \in Range(calls)

\* C7: all_passed is the conjunction of the records' passed fields.
C7_AllPassedIsConjunction ==
    vres # <<>> =>
        (vres[1].all_passed <=> \A i \in 1..Len(vres[1].results) : vres[1].results[i].passed)

\* The only record that did not pass is that of a validator that raised.
C7_Witness ==
    /\ vres # <<>>
    /\ ws.pkgJson = "error"
    /\ vres[1].results[1].passed /\ vres[1].results[3].passed
    /\ ~vres[1].all_passed

\* C8: a validator that raises gets a record that did not pass and carries the
\* error's text, and validate_all returns its full report.
C8_RaiseIsRecorded ==
    (vres # <<>> /\ ws.pkgJson = "error") =>
        /\ Len(vres[1].results) = Len(Validators)
        /\ vres[1].results[2] =
              [validator |-> "JavaScriptValidator", passed |-> FALSE,
               message |-> "Error: " \o ErrText("error")]

\* validate_all has returned although JavaScriptValidator.validate raised.
C8_Witness ==
    /\ vres # <<>>
    /\ ws.pkgJson = "error"
    /\ "JavaScriptValidator.validate" \in Range(trace)

\* C9: a validator whose marker files are absent passes without running a
\* command.
C9_AbsentEcosystemPasses ==
    vres # <<>> =>
        /\ ws.pyFiles = "absent" =>
              /\ vres[1].results[1].passed
              /\ Range(calls) \cap {"python -m py_compile", "pytest"} = {}
        /\ ws.pkgJson = "absent" =>
              /\ vres[1].results[2].passed
              /\ "npm test" \notin Range(calls)
        /\ (ws.dockerfile = "absent" /\ ws.compose = "absent") =>
              /\ vres[1].results[3].passed
              /\ Range(calls) \cap {"docker build", "docker compose config"} = {}

\* C10: a validator whose command timed out passes, as when the command is
\* not installed.
C10_TimeoutPassesThrough ==
    vres # <<>> =>
        \A i \in 1..Len(vres[1].results) :
            vres[1].results[i].message = "Validation error: " \o ErrText("timeout")
            => vres[1].results[i].passed

\* C11: whenever run() has returned, it has returned True, whatever was found
\* and whatever the fixes did.
C11_RunReturnsTrue ==
    /\ result # <<>> => result = <<TRUE>>
    /\ pc = "DONE" => result = <<TRUE>>

\* A run that returned after a fix failed and nothing was fixed.
C11_Witness ==
    /\ pc = "DONE" /\ result = <<TRUE>>
    /\ issues # <<>> /\ FixFailures # <<>> /\ fixer.fixed_count = 0

\* The statements run() has still to go through, at most, from where it is.
StepsLeft ==
    CASE pc = "IDLE" -> 8
      [] pc = "DETECTING" -> 7 - DetectorsRun
      [] pc = "REPORTING" -> 3
      [] pc = "FIXING" -> 2
      [] pc \in {"NO_ISSUES", "SUMMARIZING"} -> 1
      [] OTHER -> 0

\* C12: whatever the external tools of the detectors and of the fixers do
\* (success, non-zero status, not installed, timeout, malformed output), the run
\* reaches DONE with a boolean result and is never aborted by an exception: as
\* long as it is not DONE it has a next step, every step brings it nearer to
\* the end, and no exception leaves run().  (The one exception run() lets
\* through comes from the file system, not from a tool: Path.exists() on
\* package.json.)
C12_RunTerminates ==
    /\ [](ws.pkgJson # "error" =>
            /\ pc # "RAISED"
            /\ pc = "DONE" \/ ENABLED Next
            /\ pc = "DONE" => result \in {<<TRUE>>, <<FALSE>>}
            /\ StepsLeft \in 0..8)
    /\ [][ws.pkgJson # "error" => StepsLeft' < StepsLeft]_vars

\* A run that ended although every tool it called was missing or timed out.
C12_Witness ==
    /\ pc = "DONE" /\ result # <<>>
    /\ "Warning: Formatting check failed: timed out" \in Range(out)
    /\ "Warning: Security check failed: timed out" \in Range(out)
    /\ "npm outdated" \in Range(calls)
    /\ \E o \in Raises : "Dependency update failed: " \o ErrText(o) \in Range(out)

\* C13: every Issue that exists has a non-empty fix_command when it is fixable:
\* no Issue can be constructed with fixable = True and no fix_command.
C13_FixableHasFixCommand ==
    \A i \in 1..Len(issues) :
        issues[i].fixable => issues[i].fix_command \notin {None, ""}

\* The issues of the run that are security findings, and the others.
SecurityFindings == SelectSeq(issues, LAMBDA i : i.issue_type = "security")

\* C14: security findings are never fixed automatically: each of them has
\* fixable = False and no fix command, a fixer is entered only for a finding of
\* its own group, and a run whose findings are all security findings ends with
\* no fixer entered, no fixing command run and fixed_count = 0.
C14_SecurityNeverFixed ==
    /\ \A i \in 1..Len(SecurityFindings) :
          ~SecurityFindings[i].fixable /\ SecurityFindings[i].fix_command = None
    /\ "fix_formatting" \in Range(trace) =>
          \E i \in 1..Len(issues) : issues[i].issue_type \in {"formatting", "imports"}
    /\ "fix_dependencies" \in Range(trace) =>
          \E i \in 1..Len(issues) : issues[i].issue_type \in {"dependencies", "npm-dependencies"}
    /\ (pc \in {"SUMMARIZING", "DONE"} /\ SecurityFindings = issues) =>
          /\ fixer.fixed_count = 0
          /\ Range(trace) \cap {"fix_formatting", "fix_dependencies"} = {}
          /\ Range(calls) \cap FixCommands = {}

\* A run that found security findings only and went through its fix phase.
C14_Witness ==
    /\ pc = "DONE" /\ issues # <<>> /\ SecurityFindings = issues
    /\ "apply_fixes" \in Range(trace) /\ fixer.fixed_count = 0

\* How many times x occurs in the sequence q.
Count(q, x) == Len(SelectSeq(q, LAMBDA y : y = x))

\* In workspace w the tools answer e: npm reports outdated packages, and no
\* other tool reports a defect.
OnlyNpmOutdated(w, e) ==
    /\ w.pkgJson = "present" /\ e.onpm = "{\"pkg\": {}}"
    /\ e.ob # "nonzero" /\ e.oi # "nonzero"
    /\ e.ol # "diag"
    /\ e.os.results = <<>>
    /\ \A i \in 1..Len(w.reqFiles) : ~(e.opips[i].kind = "json" /\ e.opips[i].n > 0)

\* C15: when the only defect of the workspace is a package.json with outdated
\* npm packages, detection yields exactly one issue, npm-dependencies and
\* fixable; the fix phase then enters fix_dependencies exactly once, runs
\* `npm update` at most once, and ends with fixed_count = 1 when the update
\* succeeded (0 when it failed).
C15_OnlyNpmOutdated ==
    [][/\ (pc = "DETECTING" /\ env # <<>> /\ env' = <<>> /\ OnlyNpmOutdated(ws, env[1])) =>
            /\ issues' = <<NpmIssue>>
            /\ NpmIssue.issue_type = "npm-dependencies" /\ NpmIssue.fixable
            /\ pc' = "REPORTING"
       /\ (pc = "FIXING" /\ pc' = "SUMMARIZING" /\ issues = <<NpmIssue>>) =>
            /\ Count(trace', "fix_dependencies") = 1
            /\ Count(trace', "fix_formatting") = 0
            /\ Count(calls', "npm update") <= 1
            /\ IF "Dependencies updated" \in Range(out')
               THEN fixer'.fixed_count = 1 /\ Count(calls', "npm update") = 1
               ELSE fixer'.fixed_count = 0]_vars

\* A run that found the npm issue alone, updated, and counted one fix.
C15_Witness ==
    /\ pc = "DONE" /\ issues = <<NpmIssue>> /\ env = <<>>
    /\ Count(trace, "run_all_detectors") = 1
    /\ Count(calls, "npm outdated") = 1 /\ Count(calls, "npm update") = 1
    /\ fixer.fixed_count = 1

\* The exclusion set a new .dockerignore holds.
DefaultExclusions ==
    {".git", ".gitignore", ".dockerignore", ".env", "node_modules", "__pycache__",
     ".pytest_cache", ".venv", "build", "dist", "*.egg-info", ".vscode", ".idea"}

\* C17: optimize_dockerfile on a workspace with a Dockerfile and no
\* .dockerignore creates .dockerignore with the default exclusion set, one entry
\* per line, and returns True; called again on the result it changes nothing
\* and returns False; with no Dockerfile or with a .dockerignore it leaves the
\* workspace as it was.
C17_DockerignoreCreatedOnce ==
    [][(trace' # trace /\ trace'[Len(trace')] = "optimize_dockerfile") =>
          LET f == fs[1]
              g == fs'[1]
              r == ret'[1]
          IN  /\ (f.dockerfile.state # "absent" /\ ~f.dockerignore.exists) =>
                    /\ g.dockerfile = f.dockerfile /\ g.compose = f.compose
                    /\ g.dockerignore.exists
                    /\ Range(g.dockerignore.lines) = DefaultExclusions
                    /\ Len(g.dockerignore.lines) = Cardinality(DefaultExclusions)
                    /\ r.value = TRUE /\ ~r.raised
              /\ (f.dockerfile.state = "absent" \/ f.dockerignore.exists) => g = f
              /\ (ret # <<>> /\ ret[1].method = "optimize_dockerfile" /\ ret[1].value = TRUE) =>
                    g = f /\ r.value = FALSE /\ ~r.raised]_vars

\* C16: detect_config_issues on a workspace whose docker-compose.yml holds a
\* password marker returns a docker-compose finding of severity "high" that
\* carries fixable = False; without a marker the finding has severity
\* "medium".
C16_ComposePasswordHighNotFixable ==
    (ret # <<>> /\ ret[1].method = "detect_config_issues" /\ fs[1].compose.exists) =>
        /\ Len(ret[1].value) = 1
        /\ ret[1].value[1].category = "docker-compose"
        /\ IF \E p \in PasswordMarkers : Holds(fs[1].compose, p)
           THEN /\ ret[1].value[1].severity = "high"
                /\ "fixable" \in DOMAIN ret[1].value[1]
                /\ ret[1].value[1].fixable = FALSE
           ELSE ret[1].value[1].severity = "medium"

\* A service entry that has a runnable image: a mapping whose "image" is not empty.
HasImage(s) == s.kind = "mapping" /\ s.image \notin {"absent", ""}

\* The keys of the "services" of a file.
NamesOf(c) == {c.services[i].name : i \in 1..Len(c.services)}

\* What the claim says of one call that took the compose file from c to d and
\* returned r, when the call before was `before`; a service of d is compared
\* with the service of c that has its key, wherever the two stand in the text.
HealthcheckContract(c, d, r, before) ==
    /\ Len(d.services) = Len(c.services)
    /\ NamesOf(d) = NamesOf(c)
    /\ \A i \in 1..Len(c.services), j \in 1..Len(d.services) :
          d.services[j].name = c.services[i].name =>
              /\ HasImage(d.services[j]) => d.services[j].healthcheck # <<>>
              /\ c.services[i].healthcheck # <<>> => d.services[j] = c.services[i]
              /\ ~HasImage(c.services[i]) => d.services[j] = c.services[i]
    /\ (before # <<>> /\ before[1].method = "add_docker_compose_healthcheck") =>
          r.value = FALSE /\ ~r.wrote /\ d = c

\* C18 as stated: after add_docker_compose_healthcheck every service with an
\* image has a healthcheck, a service that had one keeps it, a service without
\* an image is untouched, and a second application returns False and does not
\* write the file.
C18_AsStated ==
    [][(trace' # trace /\ ret'[1].method = "add_docker_compose_healthcheck") =>
          HealthcheckContract(fs[1].compose, fs'[1].compose, ret'[1], ret)]_vars

\* The report of the issues is the end of what has been printed.
ReportEmitted ==
    /\ Len(out) > Len(issues)
    /\ SubSeq(out, Len(out) - Len(issues), Len(out)) =
          <<"Found " \o ToString(Len(issues)) \o " issue(s):">> \o ReportLines(issues)

\* A fixer method has been entered or a fixing command has been run.
FixStarted(t, c) == Range(t) \cap FixMethods # {} \/ Range(c) \cap FixCommands # {}

\* C19: in a run that found issues, the report of all of them is printed
\* before the first fixer method is entered and the first fixing command is
\* run; no step of detection or of reporting enters a fixer or runs a fixing
\* command, and once the fixes have started no detector runs and the list of
\* issues does not change.
C19_ReportBeforeFixes ==
    [][/\ (~FixStarted(trace, calls) /\ FixStarted(trace', calls')) =>
            /\ pc = "FIXING" /\ issues # <<>> /\ issues' = issues
            /\ DetectorsRun = Len(Detectors)
            /\ ReportEmitted
       /\ pc \in {"IDLE", "DETECTING", "REPORTING", "NO_ISSUES"} => ~FixStarted(trace', calls')
       /\ FixStarted(trace, calls) =>
            /\ issues' = issues
            /\ DetectorsRun' = DetectorsRun
            /\ SelectSeq(calls', LAMBDA c : c \notin FixCommands)
                 = SelectSeq(calls, LAMBDA c : c \notin FixCommands)]_vars

\* A run that reported several issues and then ran fixing commands.
C19_Witness ==
    /\ pc = "DONE" /\ Len(issues) >= 2
    /\ "Found " \o ToString(Len(issues)) \o " issue(s):" \in Range(out)
    /\ {"black", "npm update"} \subseteq Range(calls)

\* The place of a state of run() in the pass.
PcRank(p) ==
    CASE p = "IDLE" -> 0
      [] p = "DETECTING" -> 1
      [] p \in {"REPORTING", "NO_ISSUES"} -> 2
      [] p = "FIXING" -> 3
      [] p = "SUMMARIZING" -> 4
      [] OTHER -> 5

\* The transitions of the pass: the forward ones, and the end of run()
\* by the exception of a detector.
PassEdges ==
    {<<"IDLE", "DETECTING">>, <<"DETECTING", "DETECTING">>,
     <<"DETECTING", "REPORTING">>, <<"DETECTING", "NO_ISSUES">>,
     <<"NO_ISSUES", "DONE">>, <<"REPORTING", "FIXING">>,
     <<"FIXING", "SUMMARIZING">>, <<"SUMMARIZING", "DONE">>,
     <<"DETECTING", "RAISED">>}

ValidatorMethods ==
    {"validate_all"} \cup {Validators[i] \o ".validate" : i \in 1..Len(Validators)}

\* C20: a run is one forward pass IDLE, DETECTING, REPORTING or NO_ISSUES,
\* FIXING, SUMMARIZING, DONE: run(), run_all_detectors, each detector and
\* apply_fixes are entered at most once, every step goes forward (inside
\* DETECTING, to the next detector), no state is entered again, and no method
\* of the validators is entered.
C20_SingleForwardPass ==
    /\ [](/\ \A t \in Range(trace) : Count(trace, t) = 1
          /\ Range(trace) \cap ValidatorMethods = {}
          /\ vres = <<>>)
    /\ [][/\ <<pc, pc'>> \in PassEdges
          /\ IF pc' = pc THEN DetectorsRun' = DetectorsRun + 1
             ELSE PcRank(pc') > PcRank(pc)]_vars

\* A run that went through every state of the pass with findings.
C20_Witness ==
    /\ pc = "DONE" /\ issues # <<>>
    /\ \A i \in 1..Len(Detectors) : Count(trace, Detectors[i]) = 1
    /\ Count(trace, "apply_fixes") = 1
    /\ Count(trace, "fix_formatting") = 1 /\ Count(trace, "fix_dependencies") = 1

\* The issue types of a list of issues.
TypesOf(is) == {is[i].issue_type : i \in 1..Len(is)}

\* What was appended to a sequence between two states.
Added(before, after) == SubSeq(after, Len(before) + 1, Len(after))

\* C21: one call of apply_fixes enters fix_formatting exactly when its issues
\* hold a formatting or imports issue, and fix_dependencies exactly when they
\* hold a dependencies or npm-dependencies issue, each at most once, formatting
\* first; issues of the other types (linting, security) make it enter no fixer
\* and run no command, fixable or not.
C21_FixersOnlyForOwnDomain ==
    [][(trace' # trace /\ ret' # <<>> /\ ret'[1].method = "apply_fixes") =>
          LET t == Added(trace, trace')
              c == Added(calls, calls')
              fmt == TypesOf(issues') \cap {"formatting", "imports"} # {}
              dep == TypesOf(issues') \cap {"dependencies", "npm-dependencies"} # {}
          IN  /\ Count(t, "apply_fixes") = 1
              /\ Count(t, "fix_formatting") = (IF fmt THEN 1 ELSE 0)
              /\ Count(t, "fix_dependencies") = (IF dep THEN 1 ELSE 0)
              /\ t = <<"apply_fixes">> \o (IF fmt THEN <<"fix_formatting">> ELSE <<>>)
                                        \o (IF dep THEN <<"fix_dependencies">> ELSE <<>>)
              /\ ~fmt => Range(c) \cap {"black", "isort"} = {}
              /\ ~dep => Range(c) \cap (FixCommands \ {"black", "isort"}) = {}
              /\ (~fmt /\ ~dep) =>
                    c = <<>> /\ fixer' = fixer /\ ret'[1].value = fixer.fixed_count]_vars

\* apply_fixes was called with a fixable linting issue and a security issue
\* only, and entered no fixer.
C21_Witness ==
    /\ ret # <<>> /\ ret[1].method = "apply_fixes"
    /\ issues = <<LintingIssue, SecurityIssue("HIGH")>> /\ LintingIssue.fixable
    /\ trace = <<"apply_fixes">> /\ calls = <<>>
    /\ fixer.fixed_count = 0 /\ ret[1].value = 0

StructuredDetectors ==
    {"detect_docker_best_practices", "detect_commit_quality", "detect_config_issues"}

\* C22: every DetectionResult a structured detector returns has found = True
\* exactly when its count is positive; the result of the git detector's error
\* path (no details) has found = False and count = 0.
C22_FoundIffCountPositive ==
    (ret # <<>> /\ ret[1].method \in StructuredDetectors) =>
        \A i \in 1..Len(ret[1].value) :
            LET r == ret[1].value[i]
            IN  /\ r.found <=> r.count > 0
                /\ r.count >= 0
                /\ (r.category = "git" /\ DOMAIN r.details = {}) =>
                      ~r.found /\ r.count = 0

\* The git detector has returned from its error path.
C22_WitnessGit ==
    /\ ret # <<>> /\ ret[1].method = "detect_commit_quality"
    /\ DOMAIN ret[1].value[1].details = {}
    /\ ~ret[1].value[1].found /\ ret[1].value[1].count = 0

\* The three detectors have been called, the Docker detector on a multi-stage
\* Dockerfile that runs commands, the git detector last, `git log` failing.
C22_Witness ==
    /\ Range(trace) = StructuredDetectors
    /\ fs[1].dockerfile.state = "present" /\ fs[1].dockerfile.froms > 1 /\ fs[1].dockerfile.run
    /\ fs[1].compose.exists
    /\ C22_WitnessGit
====
